---------------------------- MODULE Spec2Model ----------------------------
(***************************************************************************)
(* A model of the lark front end: the scanner (pkg/scanner) and the parser *)
(* (pkg/parser).  Source text is a sequence of characters, each a string   *)
(* of length one; the three characters the scanner treats specially that   *)
(* have no printable form are the symbols NUL, BOM and BAD (a byte that is *)
(* no UTF-8 encoding).  Offsets count characters.                          *)
(***************************************************************************)
EXTENDS Integers, Sequences, FiniteSets, TLC

VARIABLES
  text,    \* the source text handed to New or Parse
  sc,      \* the Scanner its client drives (scanner runs); the parser's
           \* scanner as the last next() found it (token-stream runs)
  tok,     \* the token the last Scan call returned (scanner runs); the
           \* token the last next() got from its first p.scan(true)
  prev,    \* the token before that: the previous Scan result, or the
           \* p.current the last next() found
  ps,      \* the parser
  nodes,   \* the local nodes of parser.parse
  ret,     \* what the finished call returned
  visitor, \* the Visitor handed to Walk
  events,  \* the Visit and Exit calls Walk has made, in order
  pc       \* where the run is

vars == <<text, sc, tok, prev, ps, nodes, ret, visitor, events, pc>>

---------------------------------------------------------------------------
(* pkg/scanner/token.go: TokenKind                                         *)

ILLEGAL == 0
ENDMARKER == 1
NEWLINE == 2
LEFT_PAREN == 3
RIGHT_PAREN == 4
LEFT_BRACK == 5
RIGHT_BRACK == 6
LEFT_BRACE == 7
RIGHT_BRACE == 8
COMMA == 9
DOT == 10
COLON == 11
SEMICOLON == 12
ARROW == 13
QMARK == 14
ASSIGN == 15
AT == 16
PLUS == 17
MINUS == 18
MULT == 19
DIV == 20
MOD == 21
AND == 22
OR == 23
EQ == 24
GE == 25
GT == 26
LE == 27
LT == 28
NEQ == 29
NOT == 30
COMMENT == 31
literal_beg == 32
IDENTIFIER == 33
STRING_ == 34
INTEGER == 35
FLOAT == 36
literal_end == 37
AS == 38
CONST == 39
EMBED == 40
FALSE_ == 41
IMPORT == 42
INTERFACE == 43
NULL == 44
STRUCT == 45
TRUE_ == 46
TYPE == 47
FUNC == 48

TokenKind == ILLEGAL..FUNC

\* The name table of token.go, used by TokenKind.String.
tokens ==
  [k \in (TokenKind \ {literal_beg, literal_end}) |->
     CASE k = ILLEGAL -> "ILLEGAL" [] k = ENDMARKER -> "ENDMARKER"
       [] k = NEWLINE -> "NEWLINE" [] k = LEFT_PAREN -> "("
       [] k = RIGHT_PAREN -> ")" [] k = LEFT_BRACK -> "["
       [] k = RIGHT_BRACK -> "]" [] k = LEFT_BRACE -> "{"
       [] k = RIGHT_BRACE -> "}" [] k = COMMA -> ","
       [] k = DOT -> "." [] k = COLON -> ":" [] k = SEMICOLON -> ";"
       [] k = ARROW -> "->" [] k = QMARK -> "?" [] k = ASSIGN -> "="
       [] k = AT -> "@" [] k = PLUS -> "+" [] k = MINUS -> "-"
       [] k = MULT -> "*" [] k = DIV -> "/" [] k = MOD -> "%"
       [] k = AND -> "&&" [] k = OR -> "||" [] k = EQ -> "=="
       [] k = GE -> ">=" [] k = GT -> ">" [] k = LE -> "<="
       [] k = LT -> "<" [] k = NEQ -> "!=" [] k = NOT -> "!"
       [] k = COMMENT -> "COMMENT" [] k = IDENTIFIER -> "IDENTIFIER"
       [] k = STRING_ -> "STRING" [] k = INTEGER -> "INTEGER"
       [] k = FLOAT -> "FLOAT" [] k = AS -> "as" [] k = CONST -> "const"
       [] k = EMBED -> "embed" [] k = FALSE_ -> "false"
       [] k = IMPORT -> "import" [] k = INTERFACE -> "interface"
       [] k = NULL -> "null" [] k = STRUCT -> "struct"
       [] k = TRUE_ -> "true" [] k = TYPE -> "type" [] k = FUNC -> "func"]

\* TokenKind.String: the two unnamed kinds have an empty table entry.
String(kind) == IF kind \in DOMAIN tokens THEN tokens[kind] ELSE ""

\* Pos and Pos.Greater.
MkPos(line, column) == [Line |-> line, Column |-> column]

Greater(p, other) ==
  \/ p.Line > other.Line
  \/ p.Line = other.Line /\ p.Column > other.Column

Token(kind, pos, value) == [Kind |-> kind, Pos |-> pos, Value |-> value]

---------------------------------------------------------------------------
(* Characters                                                              *)

NUL == "NUL"          \* the byte 0x00
BOM == "BOM"          \* U+FEFF
BAD == "BAD"          \* a byte that starts no valid UTF-8 sequence
RuneError == "U+FFFD" \* utf8.RuneError, what an invalid rune is written as
endmarker == "EOF"    \* the scanner's end-of-file rune (-1)

LowerLetters ==
  {"a","b","c","d","e","f","g","h","i","j","k","l","m",
   "n","o","p","q","r","s","t","u","v","w","x","y","z"}

UpperLetters ==
  {"A","B","C","D","E","F","G","H","I","J","K","L","M",
   "N","O","P","Q","R","S","T","U","V","W","X","Y","Z"}

DecimalDigits == {"0","1","2","3","4","5","6","7","8","9"}

digitValue(ch) ==
  CASE ch = "0" -> 0 [] ch = "1" -> 1 [] ch = "2" -> 2 [] ch = "3" -> 3
    [] ch = "4" -> 4 [] ch = "5" -> 5 [] ch = "6" -> 6 [] ch = "7" -> 7
    [] ch = "8" -> 8 [] ch = "9" -> 9
    [] ch \in {"a", "A"} -> 10 [] ch \in {"b", "B"} -> 11
    [] ch \in {"c", "C"} -> 12 [] ch \in {"d", "D"} -> 13
    [] ch \in {"e", "E"} -> 14 [] ch \in {"f", "F"} -> 15
    [] OTHER -> 16

isDecimal(ch) == ch \in DecimalDigits

isIdentifierBeginning(ch) == ch \in LowerLetters \cup UpperLetters \cup {"_"}

isIdentifierMiddle(ch) == isIdentifierBeginning(ch) \/ isDecimal(ch)

\* The values makeToken gives the two synthetic tokens.
NewlineValue == <<"n","e","w","l","i","n","e">>
EndmarkerValue == <<"e","n","d","m","a","r","k","e","r">>

keywords ==
  [v \in {<<"a","s">>, <<"c","o","n","s","t">>, <<"e","m","b","e","d">>,
          <<"f","a","l","s","e">>, <<"i","m","p","o","r","t">>,
          <<"n","u","l","l">>, <<"i","n","t","e","r","f","a","c","e">>,
          <<"s","t","r","u","c","t">>, <<"t","r","u","e">>,
          <<"t","y","p","e">>, <<"f","u","n","c">>} |->
     CASE v = <<"a","s">> -> AS
       [] v = <<"c","o","n","s","t">> -> CONST
       [] v = <<"e","m","b","e","d">> -> EMBED
       [] v = <<"f","a","l","s","e">> -> FALSE_
       [] v = <<"i","m","p","o","r","t">> -> IMPORT
       [] v = <<"n","u","l","l">> -> NULL
       [] v = <<"i","n","t","e","r","f","a","c","e">> -> INTERFACE
       [] v = <<"s","t","r","u","c","t">> -> STRUCT
       [] v = <<"t","r","u","e">> -> TRUE_
       [] v = <<"t","y","p","e">> -> TYPE
       [] v = <<"f","u","n","c">> -> FUNC]

\* Let(e, F) is F of e: the result of one statement, named for the statements
\* that follow it.
Let(e, F(_)) == F(e)

\* A diagnostic message: a format and its two arguments (a word, a lexeme).
Msg(fmt, a, b) == [fmt |-> fmt, a |-> a, b |-> b]

ErrorInfo(pos, msg) == [Pos |-> pos, Message |-> msg]

---------------------------------------------------------------------------
(* pkg/scanner/scanner.go: Scanner                                         *)

NL == "\n"
DQ == "\""
BSL == "\\"

decimal == 10
binary == 2
octal == 8
hexadecimal == 16

MaxRune == 1114111   \* utf8.MaxRune, U+10FFFF

litname(base) ==
  CASE base = 2 -> "binary" [] base = 8 -> "octal"
    [] base = 16 -> "hexadecimal" [] OTHER -> "decimal"

\* The flags of digits(): bits in the source, set members here.
noDigits == "noDigits"
invalidDigitSep == "invalidDigitSep"
leadingZero == "leadingZero"

\* errHandler is whether a handler is installed; errs is what it was handed.
Scanner_err(s, pos, msg) ==
  IF s.errHandler THEN [s EXCEPT !.errs = Append(@, ErrorInfo(pos, msg))]
  ELSE s

peek(s) == IF s.rdoffset < Len(s.text) THEN s.text[s.rdoffset + 1] ELSE NUL

load(s) ==
  IF s.rdoffset < Len(s.text)
  THEN LET r == s.text[s.rdoffset + 1]
           s1 == CASE r = NUL -> Scanner_err(s, s.end, Msg("illegal character NUL", "", <<>>))
                   [] r = BAD -> Scanner_err(s, s.end, Msg("illegal UTF-8 encoding", "", <<>>))
                   [] r = BOM /\ s.rdoffset > 0 ->
                        Scanner_err(s, s.pos, Msg("illegal byte order mark", "", <<>>))
                   [] OTHER -> s
       IN [s1 EXCEPT !.rdoffset = @ + 1,
                     !.current = IF r = BAD THEN RuneError ELSE r]
  ELSE [s EXCEPT !.current = endmarker]

New(src, errHandler) ==
  LET s0 == [text |-> src, rdoffset |-> 0, current |-> endmarker,
             pos |-> MkPos(0, 0), end |-> MkPos(0, 0), val |-> <<>>,
             errHandler |-> errHandler, errs |-> <<>>,
             line |-> <<>>, lines |-> <<>>, done |-> FALSE]
      s1 == load(s0)
  IN IF s1.current = BOM THEN load(s1) ELSE s1

\* bytes.Buffer.WriteRune: a rune that is no code point is written as U+FFFD.
WriteRune(r) == IF r = endmarker THEN RuneError ELSE r

\* Scanner.next with a slip: a newline resets the column and keeps the line.
Scanner_next_keepsLine(s) ==
  LET s1 == CASE s.current = endmarker ->
                   IF ~s.done
                   THEN IF Len(s.line) > 0
                        THEN [s EXCEPT !.lines = Append(@, s.line),
                                       !.line = <<>>, !.done = TRUE]
                        ELSE [s EXCEPT !.done = TRUE]
                   ELSE s
              [] s.current = NL ->
                   [s EXCEPT !.lines = Append(@, s.line), !.line = <<>>,
                             !.end = MkPos(s.end.Line, 0)]
              [] OTHER ->
                   [s EXCEPT !.line = Append(@, s.current),
                             !.end = MkPos(s.end.Line, s.end.Column + 1)]
  IN load([s1 EXCEPT !.val = Append(@, WriteRune(s.current))])

\* Scanner.next with a slip: the last line is not flushed at the end of input.
Scanner_next_noFlush(s) ==
  LET s1 == CASE s.current = endmarker ->
                   IF ~s.done THEN [s EXCEPT !.done = TRUE] ELSE s
              [] s.current = NL ->
                   [s EXCEPT !.lines = Append(@, s.line), !.line = <<>>,
                             !.end = MkPos(s.end.Line + 1, 0)]
              [] OTHER ->
                   [s EXCEPT !.line = Append(@, s.current),
                             !.end = MkPos(s.end.Line, s.end.Column + 1)]
  IN load([s1 EXCEPT !.val = Append(@, WriteRune(s.current))])

\* Scanner.next with a slip: an empty line is not added to the lines.
Scanner_next_dropsEmptyLine(s) ==
  LET s1 == CASE s.current = endmarker ->
                   IF ~s.done
                   THEN IF Len(s.line) > 0
                        THEN [s EXCEPT !.lines = Append(@, s.line),
                                       !.line = <<>>, !.done = TRUE]
                        ELSE [s EXCEPT !.done = TRUE]
                   ELSE s
              [] s.current = NL ->
                   [s EXCEPT !.lines = IF Len(s.line) > 0 THEN Append(@, s.line) ELSE @,
                             !.line = <<>>,
                             !.end = MkPos(s.end.Line + 1, 0)]
              [] OTHER ->
                   [s EXCEPT !.line = Append(@, s.current),
                             !.end = MkPos(s.end.Line, s.end.Column + 1)]
  IN load([s1 EXCEPT !.val = Append(@, WriteRune(s.current))])

Scanner_next(s) ==
  LET s1 == CASE s.current = endmarker ->
                   IF ~s.done
                   THEN IF Len(s.line) > 0
                        THEN [s EXCEPT !.lines = Append(@, s.line),
                                       !.line = <<>>, !.done = TRUE]
                        ELSE [s EXCEPT !.done = TRUE]
                   ELSE s
              [] s.current = NL ->
                   [s EXCEPT !.lines = Append(@, s.line), !.line = <<>>,
                             !.end = MkPos(s.end.Line + 1, 0)]
              [] OTHER ->
                   [s EXCEPT !.line = Append(@, s.current),
                             !.end = MkPos(s.end.Line, s.end.Column + 1)]
  IN load([s1 EXCEPT !.val = Append(@, WriteRune(s.current))])

\* A scanning function returns the scanner after it and the token.
Ret(s, t) == [s |-> s, token |-> t]

\* makeToken with a slip: the value lacks the last character consumed.
makeToken_valueCutShort(s, kind) ==
  Ret(s, Token(kind, s.pos,
               CASE kind = NEWLINE -> NewlineValue
                 [] kind = ENDMARKER -> EndmarkerValue
                 [] OTHER -> SubSeq(s.val, 1, Len(s.val) - 1)))

makeToken(s, kind) ==
  Ret(s, Token(kind, s.pos,
               CASE kind = NEWLINE -> NewlineValue
                 [] kind = ENDMARKER -> EndmarkerValue
                 [] OTHER -> s.val))

RECURSIVE skipWhitespace(_)
skipWhitespace(s) ==
  IF s.current \in {" ", "\t", "\r"} THEN skipWhitespace(Scanner_next(s))
  ELSE s

\* Returns the scanner and the chosen kind.
switch2(s, ch, k0, k1) ==
  IF s.current = ch THEN [s |-> Scanner_next(s), kind |-> k0]
  ELSE [s |-> s, kind |-> k1]

RECURSIVE scanCommentLoop(_)
scanCommentLoop(s) ==
  IF s.current # NL /\ s.current # endmarker
  THEN scanCommentLoop(Scanner_next(s)) ELSE s

scanComment(s) == makeToken(scanCommentLoop(s), COMMENT)

RECURSIVE scanIdentifierLoop(_)
scanIdentifierLoop(s) ==
  IF isIdentifierMiddle(s.current) THEN scanIdentifierLoop(Scanner_next(s))
  ELSE s

scanIdentifier(s) ==
  Let(scanIdentifierLoop(s), LAMBDA s1 :
    makeToken(s1, IF s1.val \in DOMAIN keywords THEN keywords[s1.val]
                  ELSE IDENTIFIER))

\* The loop of digits with a slip: every decimal digit is taken, whatever
\* the base.
RECURSIVE digitsLoop_anyDecimal(_, _, _, _, _, _)
digitsLoop_anyDecimal(s, base, flags, ndigits, n, digsep) ==
  IF digitValue(s.current) < base \/ isDecimal(s.current)
  THEN digitsLoop_anyDecimal(Scanner_next(s), base, flags, ndigits + 1, n + 1, TRUE)
  ELSE IF s.current = "_"
  THEN digitsLoop_anyDecimal(Scanner_next(s), base,
                  IF digsep THEN flags ELSE flags \cup {invalidDigitSep},
                  ndigits, n + 1, FALSE)
  ELSE [s |-> s, flags |-> flags, ndigits |-> ndigits, n |-> n,
        digsep |-> digsep]

\* The loop of digits with another slip: every hexadecimal digit is taken,
\* whatever the base.
RECURSIVE digitsLoop_anyHex(_, _, _, _, _, _)
digitsLoop_anyHex(s, base, flags, ndigits, n, digsep) ==
  IF digitValue(s.current) < hexadecimal
  THEN digitsLoop_anyHex(Scanner_next(s), base, flags, ndigits + 1, n + 1, TRUE)
  ELSE IF s.current = "_"
  THEN digitsLoop_anyHex(Scanner_next(s), base,
                  IF digsep THEN flags ELSE flags \cup {invalidDigitSep},
                  ndigits, n + 1, FALSE)
  ELSE [s |-> s, flags |-> flags, ndigits |-> ndigits, n |-> n,
        digsep |-> digsep]

RECURSIVE digitsLoop(_, _, _, _, _, _)
digitsLoop(s, base, flags, ndigits, n, digsep) ==
  IF digitValue(s.current) < base
  THEN digitsLoop(Scanner_next(s), base, flags, ndigits + 1, n + 1, TRUE)
  ELSE IF s.current = "_"
  THEN digitsLoop(Scanner_next(s), base,
                  IF digsep THEN flags ELSE flags \cup {invalidDigitSep},
                  ndigits, n + 1, FALSE)
  ELSE [s |-> s, flags |-> flags, ndigits |-> ndigits, n |-> n,
        digsep |-> digsep]

\* digits with a slip: the check after the loop is left out.
digits_noCheckAfterLoop(s, base, lead) ==
  Let(digitsLoop(s, base, {}, 0, 0, lead), LAMBDA r :
    [s |-> r.s,
     flags |-> IF r.ndigits = 0 THEN r.flags \cup {noDigits} ELSE r.flags])

digits(s, base, lead) ==
  Let(digitsLoop(s, base, {}, 0, 0, lead), LAMBDA r :
    LET f1 == IF (r.ndigits = 0 /\ r.n > 0) \/ (r.ndigits > 0 /\ ~r.digsep)
              THEN r.flags \cup {invalidDigitSep} ELSE r.flags
    IN [s |-> r.s, flags |-> IF r.ndigits = 0 THEN f1 \cup {noDigits} ELSE f1])

\* The prefix of a number: its base, and a leading zero noted.
scanNumberPrefix(s) ==
  IF s.current = "0"
  THEN Let(Scanner_next(s), LAMBDA s1 :
         CASE s1.current \in {"b", "B"} ->
                [s |-> Scanner_next(s1), base |-> binary, flags |-> {}]
           [] s1.current \in {"o", "O"} ->
                [s |-> Scanner_next(s1), base |-> octal, flags |-> {}]
           [] s1.current \in {"x", "X"} ->
                [s |-> Scanner_next(s1), base |-> hexadecimal, flags |-> {}]
           [] OTHER ->
                [s |-> s1, base |-> decimal,
                 flags |-> IF isDecimal(s1.current) THEN {leadingZero} ELSE {}])
  ELSE [s |-> s, base |-> decimal, flags |-> {}]

\* The integer part.
scanNumberInteger(a) ==
  IF a.s.current # "."
  THEN Let(digits(a.s, a.base, TRUE), LAMBDA d :
         IF invalidDigitSep \in d.flags
         THEN [s |-> d.s, flags |-> a.flags \cup {invalidDigitSep}]
         ELSE IF noDigits \in d.flags /\ a.base # decimal
         THEN [s |-> Scanner_err(d.s, d.s.pos,
                        Msg("%s literal has no digits", litname(a.base), <<>>)),
               flags |-> a.flags]
         ELSE [s |-> d.s, flags |-> a.flags])
  ELSE [s |-> a.s, flags |-> a.flags]

\* The fractional part.
scanNumberFraction(a, b) ==
  IF b.s.current = "."
  THEN Let(digits(Scanner_next(IF a.base # decimal
                               THEN Scanner_err(b.s, b.s.end,
                                      Msg("invalid radix point in %s literal",
                                          litname(a.base), <<>>))
                               ELSE b.s),
                  decimal, FALSE), LAMBDA d :
         [s |-> d.s, kind |-> FLOAT,
          flags |-> IF invalidDigitSep \in d.flags
                    THEN b.flags \cup {invalidDigitSep} ELSE b.flags])
  ELSE [s |-> b.s, kind |-> INTEGER, flags |-> b.flags]

\* The exponent.
scanNumberExponent(a, c) ==
  IF c.s.current \in {"e", "E"}
  THEN Let(Scanner_next(c.s), LAMBDA s1 :
       Let(digits(IF s1.current \in {"+", "-"} THEN Scanner_next(s1) ELSE s1,
                  a.base, FALSE), LAMBDA d :
         IF invalidDigitSep \in d.flags
         THEN [s |-> d.s, kind |-> FLOAT, flags |-> c.flags \cup {invalidDigitSep}]
         ELSE IF noDigits \in d.flags
         THEN [s |-> Scanner_err(d.s, d.s.pos, Msg("exponent has no digits", "", <<>>)),
               kind |-> FLOAT, flags |-> c.flags]
         ELSE [s |-> d.s, kind |-> FLOAT, flags |-> c.flags]))
  ELSE c

\* The end of scanNumber with a slip: the leading zero of a FLOAT is
\* reported too.
scanNumberEnd_floatLeadingZero(e) ==
  Let(IF leadingZero \in e.flags
      THEN Scanner_err(e.s, e.s.pos,
             Msg("leading zeros in decimal integer literals are not permitted",
                 "", <<>>))
      ELSE e.s, LAMBDA s3 :
    makeToken(IF invalidDigitSep \in e.flags
              THEN Scanner_err(s3, s3.pos,
                     Msg("'_' must separate successive digits", "", <<>>))
              ELSE s3,
              e.kind))

\* The two reports at the end of scanNumber, and its token.
scanNumberEnd(e) ==
  Let(IF leadingZero \in e.flags /\ e.kind = INTEGER
      THEN Scanner_err(e.s, e.s.pos,
             Msg("leading zeros in decimal integer literals are not permitted",
                 "", <<>>))
      ELSE e.s, LAMBDA s3 :
    makeToken(IF invalidDigitSep \in e.flags
              THEN Scanner_err(s3, s3.pos,
                     Msg("'_' must separate successive digits", "", <<>>))
              ELSE s3,
              e.kind))

scanNumber(s) ==
  Let(scanNumberPrefix(s), LAMBDA a :
  Let(scanNumberInteger(a), LAMBDA b :
  Let(scanNumberFraction(a, b), LAMBDA c :
  Let(scanNumberExponent(a, c), LAMBDA e :
    scanNumberEnd(e)))))

\* The digits of an escape.  x saturates above MaxRune: it only grows, and
\* the code only asks whether it exceeds max (255 or MaxRune) or is a
\* surrogate.
RECURSIVE escapeLoop(_, _, _, _)
escapeLoop(s, pos, n, x) ==
  IF n > 0
  THEN LET current == s.current
           d == digitValue(current)
       IN IF d = 16
          THEN [s |-> Scanner_err(Scanner_next(s), pos,
                        Msg("illegal hexadecimal digit %#U in escape sequence",
                            "", <<current>>)),
                ok |-> FALSE, x |-> x]
          ELSE escapeLoop(Scanner_next(s), pos, n - 1,
                          IF x > MaxRune THEN x ELSE x * 16 + d)
  ELSE [s |-> s, ok |-> TRUE, x |-> x]

\* The digits of an x, u or U escape and the test of their value.
escapeHex(s1, pos, n, max) ==
  Let(escapeLoop(s1, pos, n, 0), LAMBDA r :
    IF r.ok /\ (r.x > max \/ (r.x >= 55296 /\ r.x < 57344))
    THEN Scanner_err(r.s, pos,
           Msg("escape sequence is invalid unicode code point", "", <<>>))
    ELSE r.s)

escape(s) ==
  LET pos == s.end
      current == s.current
  IN Let(Scanner_next(s), LAMBDA s1 :
       CASE current \in {"a", "b", "f", "n", "r", "t", "v", BSL, DQ} -> s1
         [] current = "x" -> escapeHex(s1, pos, 2, 255)
         [] current = "u" -> escapeHex(s1, pos, 4, MaxRune)
         [] current = "U" -> escapeHex(s1, pos, 8, MaxRune)
         [] OTHER -> Scanner_err(s1, pos, Msg("unknown escape sequence", "", <<>>)))

RECURSIVE scanStringLoop(_)
scanStringLoop(s) ==
  IF s.current # DQ /\ s.current # endmarker /\ s.current # NL
  THEN scanStringLoop(IF s.current = BSL THEN escape(Scanner_next(s))
                      ELSE Scanner_next(s))
  ELSE s

scanString(s) ==
  Let(scanStringLoop(s), LAMBDA s1 :
    makeToken(IF s1.current = DQ THEN Scanner_next(s1)
              ELSE Scanner_err(s1, s1.pos, Msg("unterminated string", "", <<>>)),
              STRING_))

\* The default branch of Scan's switch with a slip: the case ';' is missing.
ScanDefault_noSemicolon(s, current) ==
  LET two(ch, k0, k1) == LET r == switch2(s, ch, k0, k1) IN makeToken(r.s, r.kind)
      illegal(s1) ==
        makeToken(Scanner_err(s1, s1.pos, Msg("illegal character %#U", "", <<current>>)),
                  ILLEGAL)
  IN CASE current = endmarker -> makeToken(s, ENDMARKER)
       [] current = NL -> makeToken(s, NEWLINE)
       [] current = "(" -> makeToken(s, LEFT_PAREN)
       [] current = ")" -> makeToken(s, RIGHT_PAREN)
       [] current = "[" -> makeToken(s, LEFT_BRACK)
       [] current = "]" -> makeToken(s, RIGHT_BRACK)
       [] current = "{" -> makeToken(s, LEFT_BRACE)
       [] current = "}" -> makeToken(s, RIGHT_BRACE)
       [] current = "," -> makeToken(s, COMMA)
       [] current = "." -> makeToken(s, DOT)
       [] current = ":" -> makeToken(s, COLON)
       [] current = "?" -> makeToken(s, QMARK)
       [] current = "=" -> two("=", EQ, ASSIGN)
       [] current = "@" -> makeToken(s, AT)
       [] current = "+" -> makeToken(s, PLUS)
       [] current = "-" -> two(">", ARROW, MINUS)
       [] current = "*" -> makeToken(s, MULT)
       [] current = "/" -> makeToken(s, DIV)
       [] current = "%" -> makeToken(s, MOD)
       [] current = "&" ->
            LET r == switch2(s, "&", AND, ILLEGAL)
            IN IF r.kind = AND THEN makeToken(r.s, AND) ELSE illegal(r.s)
       [] current = "|" ->
            LET r == switch2(s, "|", OR, ILLEGAL)
            IN IF r.kind = OR THEN makeToken(r.s, OR) ELSE illegal(r.s)
       [] current = "<" -> two("=", LE, LT)
       [] current = ">" -> two("=", GE, GT)
       [] current = "!" -> two("=", NEQ, NOT)
       [] current = DQ -> scanString(s)
       [] OTHER -> illegal(s)

\* The default branch of Scan's switch, after its s.next(): s is the scanner
\* after that call, current the character it consumed.
ScanDefault(s, current) ==
  LET two(ch, k0, k1) == LET r == switch2(s, ch, k0, k1) IN makeToken(r.s, r.kind)
      illegal(s1) ==
        makeToken(Scanner_err(s1, s1.pos, Msg("illegal character %#U", "", <<current>>)),
                  ILLEGAL)
  IN CASE current = endmarker -> makeToken(s, ENDMARKER)
       [] current = NL -> makeToken(s, NEWLINE)
       [] current = "(" -> makeToken(s, LEFT_PAREN)
       [] current = ")" -> makeToken(s, RIGHT_PAREN)
       [] current = "[" -> makeToken(s, LEFT_BRACK)
       [] current = "]" -> makeToken(s, RIGHT_BRACK)
       [] current = "{" -> makeToken(s, LEFT_BRACE)
       [] current = "}" -> makeToken(s, RIGHT_BRACE)
       [] current = "," -> makeToken(s, COMMA)
       [] current = "." -> makeToken(s, DOT)
       [] current = ":" -> makeToken(s, COLON)
       [] current = ";" -> makeToken(s, SEMICOLON)
       [] current = "?" -> makeToken(s, QMARK)
       [] current = "=" -> two("=", EQ, ASSIGN)
       [] current = "@" -> makeToken(s, AT)
       [] current = "+" -> makeToken(s, PLUS)
       [] current = "-" -> two(">", ARROW, MINUS)
       [] current = "*" -> makeToken(s, MULT)
       [] current = "/" -> makeToken(s, DIV)
       [] current = "%" -> makeToken(s, MOD)
       [] current = "&" ->
            LET r == switch2(s, "&", AND, ILLEGAL)
            IN IF r.kind = AND THEN makeToken(r.s, AND) ELSE illegal(r.s)
       [] current = "|" ->
            LET r == switch2(s, "|", OR, ILLEGAL)
            IN IF r.kind = OR THEN makeToken(r.s, OR) ELSE illegal(r.s)
       [] current = "<" -> two("=", LE, LT)
       [] current = ">" -> two("=", GE, GT)
       [] current = "!" -> two("=", NEQ, NOT)
       [] current = DQ -> scanString(s)
       [] OTHER -> illegal(s)

\* Scan with a slip: the default branch does not call s.next().
Scan_noNext(s) ==
  Let(skipWhitespace(s), LAMBDA s1 :
  Let([s1 EXCEPT !.val = <<>>, !.pos = s1.end], LAMBDA s2 :
    LET current == s2.current
    IN CASE isIdentifierBeginning(current) -> scanIdentifier(s2)
         [] isDecimal(current) \/ (current = "." /\ isDecimal(peek(s2))) ->
              scanNumber(s2)
         [] current = "/" /\ peek(s2) = "/" -> scanComment(s2)
         [] OTHER -> ScanDefault(s2, current)))

Scan(s) ==
  Let(skipWhitespace(s), LAMBDA s1 :
  Let([s1 EXCEPT !.val = <<>>, !.pos = s1.end], LAMBDA s2 :
    LET current == s2.current
    IN CASE isIdentifierBeginning(current) -> scanIdentifier(s2)
         [] isDecimal(current) \/ (current = "." /\ isDecimal(peek(s2))) ->
              scanNumber(s2)
         [] current = "/" /\ peek(s2) = "/" -> scanComment(s2)
         [] OTHER -> ScanDefault(Scanner_next(s2), current)))

Lines(s) == s.lines

Done(s) == s.done

---------------------------------------------------------------------------
(* pkg/ast/ast.go: the nodes the parser builds                             *)

Nil == [type |-> "nil"]

BadNode(from, to) == [type |-> "BadNode", From |-> from, To |-> to]

BasicLit(kind, pos, value) ==
  [type |-> "BasicLit", Kind |-> kind, ValuePos |-> pos, Value |-> value]

Name(pos, name) == [type |-> "Name", NamePos |-> pos, Name |-> name]

QualName(pos, name, module) ==
  [type |-> "QualName", NodePos |-> pos, Name |-> name, Module |-> module]

UnaryExpr(pos, op, expr) ==
  [type |-> "UnaryExpr", OpPos |-> pos, Op |-> op, Expr |-> expr]

BinaryExpr(op, lhs, rhs) ==
  [type |-> "BinaryExpr", Op |-> op, Lhs |-> lhs, Rhs |-> rhs]

ImportSpec(path, alias) == [type |-> "ImportSpec", Path |-> path, Alias |-> alias]

ConstSpec(name, expr) == [type |-> "ConstSpec", Name |-> name, Expr |-> expr]

File(ns) == [type |-> "File", Nodes |-> ns]

---------------------------------------------------------------------------
(* pkg/parser/parser.go                                                    *)

precNone == 0
precLogicOr == 1
precLogicAnd == 2
precCmp == 3
precTerm == 4
precFactor == 5
precUnary == 6
precPrimary == 7

ConstSym == 0

Symbol(type, name, decl) == [Type |-> type, Name |-> name, Decl |-> decl]

\* exprRuleTable: nud and led name the bound method, "nil" for none; a kind
\* that is no key of the map reads as the zero rule.
exprRuleTable(kind) ==
  LET R(nud, led, prec) == [nud |-> nud, led |-> led, prec |-> prec]
  IN CASE kind \in {NULL, TRUE_, FALSE_, STRING_, INTEGER, FLOAT} ->
            R("parseBasicLit", "nil", precNone)
       [] kind = IDENTIFIER -> R("parseQualNameExpr", "nil", precNone)
       [] kind = MINUS -> R("parseUnaryExpr", "parseBinaryExpr", precTerm)
       [] kind = NOT -> R("parseUnaryExpr", "nil", precNone)
       [] kind = PLUS -> R("nil", "parseBinaryExpr", precTerm)
       [] kind \in {MULT, DIV, MOD} -> R("nil", "parseBinaryExpr", precFactor)
       [] kind = AND -> R("nil", "parseBinaryExpr", precLogicAnd)
       [] kind = OR -> R("nil", "parseBinaryExpr", precLogicOr)
       [] kind \in {EQ, GE, GT, LE, LT, NEQ} -> R("nil", "parseBinaryExpr", precCmp)
       [] OTHER -> R("nil", "nil", 0)

\* The array literal insert_semi: its length is its largest index plus one.
insert_semi ==
  [k \in 0..TRUE_ |->
     k \in {RIGHT_BRACE, RIGHT_BRACK, RIGHT_PAREN, INTEGER, FLOAT,
            IDENTIFIER, STRING_, TRUE_, FALSE_, NULL}]

semiOnly == {SEMICOLON}

declStart == {CONST, FUNC, IMPORT, INTERFACE, STRUCT, TYPE}

\* The zero Token, the value of p.current before the first next().
ZeroToken == Token(0, MkPos(0, 0), <<>>)

\* p := &parser{}.  panicked is not a field of the source: it is set when a
\* statement raises a Go run-time panic, after which no statement of the
\* parser runs.
ZeroParser ==
  [scanner |-> Nil, current |-> ZeroToken, errors |-> <<>>,
   syncPos |-> MkPos(0, 0), syncCnt |-> 0, imports |-> <<>>,
   symtab |-> <<>>, panicked |-> FALSE]

parser_err(p, pos, msg) ==
  IF p.panicked THEN p
  ELSE [p EXCEPT !.errors = Append(@, ErrorInfo(pos, msg))]

\* The scanner's handler is p.err: what a Scan call handed to it is appended
\* to p.errors as the call returns (the parser appends nothing meanwhile).
Handled(p, s) ==
  [p EXCEPT !.scanner = [s EXCEPT !.errs = <<>>], !.errors = @ \o s.errs]

\* scan without the skipping of comments.
RECURSIVE scan_keepsComments(_, _)
scan_keepsComments(p, newline) ==
  Let(Scan(p.scanner), LAMBDA r :
    CASE r.token.Kind = ILLEGAL -> scan_keepsComments(Handled(p, r.s), newline)
      [] r.token.Kind = NEWLINE /\ ~newline ->
           scan_keepsComments(Handled(p, r.s), newline)
      [] OTHER -> [p |-> Handled(p, r.s), token |-> r.token])

\* Returns the parser and the token.
RECURSIVE scan(_, _)
scan(p, newline) ==
  Let(Scan(p.scanner), LAMBDA r :
    CASE r.token.Kind \in {COMMENT, ILLEGAL} -> scan(Handled(p, r.s), newline)
      [] r.token.Kind = NEWLINE /\ ~newline -> scan(Handled(p, r.s), newline)
      [] OTHER -> [p |-> Handled(p, r.s), token |-> r.token])

\* next with a slip: a line break after a token that takes no semicolon is
\* delivered as it is.
parser_next_keepsNewline(p) ==
  IF p.panicked THEN p
  ELSE Let(scan(p, TRUE), LAMBDA r :
         IF r.token.Kind = NEWLINE \/ r.token.Kind = ENDMARKER
         THEN IF p.current.Kind \notin DOMAIN insert_semi
              THEN [r.p EXCEPT !.panicked = TRUE]
              ELSE IF insert_semi[p.current.Kind]
              THEN [r.p EXCEPT !.current = [r.token EXCEPT !.Kind = SEMICOLON]]
              ELSE [r.p EXCEPT !.current = r.token]
         ELSE [r.p EXCEPT !.current = r.token])

parser_next(p) ==
  IF p.panicked THEN p
  ELSE Let(scan(p, TRUE), LAMBDA r :
         IF r.token.Kind = NEWLINE \/ r.token.Kind = ENDMARKER
         THEN IF p.current.Kind \notin DOMAIN insert_semi
              THEN [r.p EXCEPT !.panicked = TRUE]   \* index out of range
              ELSE IF insert_semi[p.current.Kind]
              THEN [r.p EXCEPT !.current = [r.token EXCEPT !.Kind = SEMICOLON]]
              ELSE Let(scan(r.p, FALSE), LAMBDA r2 :
                     [r2.p EXCEPT !.current = r2.token])
         ELSE [r.p EXCEPT !.current = r.token])

init(src) == parser_next(Handled(ZeroParser, New(src, TRUE)))

expectMsg(p, msg) ==
  parser_err(p, p.current.Pos, Msg("expected %s, found '%s'", msg, p.current.Value))

\* expect with a slip: on a mismatch it reports and does not advance.
expect_noProgress(p, kind) ==
  LET token == p.current
  IN IF token.Kind # kind
     THEN [p |-> expectMsg(p, "'" \o String(kind) \o "'"), token |-> token]
     ELSE [p |-> parser_next(p), token |-> token]

\* Returns the parser and the token that was current.
expect(p, kind) ==
  LET token == p.current
      p1 == IF token.Kind # kind
            THEN expectMsg(p, "'" \o String(kind) \o "'") ELSE p
  IN [p |-> parser_next(p1), token |-> token]

\* Returns the parser and whether the token was accepted.
accept(p, kind) ==
  IF p.current.Kind = kind THEN [p |-> parser_next(p), ok |-> TRUE]
  ELSE [p |-> p, ok |-> FALSE]

\* sync with a slip: it returns at one position up to twenty times.
RECURSIVE sync_twentyTimes(_, _)
sync_twentyTimes(p, to) ==
  IF p.panicked \/ p.current.Kind = ENDMARKER THEN p
  ELSE LET token == p.current
       IN IF token.Kind \in to /\ token.Pos = p.syncPos /\ p.syncCnt < 20
          THEN [p EXCEPT !.syncCnt = @ + 1]
          ELSE IF token.Kind \in to /\ Greater(token.Pos, p.syncPos)
          THEN [p EXCEPT !.syncPos = p.current.Pos, !.syncCnt = 0]
          ELSE sync_twentyTimes(parser_next(p), to)

RECURSIVE sync(_, _)
sync(p, to) ==
  IF p.panicked \/ p.current.Kind = ENDMARKER THEN p
  ELSE LET token == p.current
       IN IF token.Kind \in to /\ token.Pos = p.syncPos /\ p.syncCnt < 10
          THEN [p EXCEPT !.syncCnt = @ + 1]
          ELSE IF token.Kind \in to /\ Greater(token.Pos, p.syncPos)
          THEN [p EXCEPT !.syncPos = p.current.Pos, !.syncCnt = 0]
          ELSE sync(parser_next(p), to)

\* A parsing function returns the parser after it and the node.
PR(p, node) == [p |-> p, node |-> node]

parseBasicLit(p) ==
  LET lit == p.current
  IN PR(parser_next(p), BasicLit(lit.Kind, lit.Pos, lit.Value))

parseName(p) ==
  Let(expect(p, IDENTIFIER), LAMBDA r :
    PR(r.p, Name(r.token.Pos,
                 IF r.token.Kind = IDENTIFIER THEN r.token.Value
                 ELSE <<"@">>)))

parseQualName(p) ==
  Let(parseName(p), LAMBDA tmp :
  Let(accept(tmp.p, DOT), LAMBDA a :
    IF a.ok
    THEN Let(parseName(a.p), LAMBDA name :
           PR(name.p, QualName(tmp.node.NamePos, name.node, tmp.node)))
    ELSE PR(a.p, QualName(tmp.node.NamePos, tmp.node, Nil))))

parseQualNameExpr(p) == parseQualName(p)

RECURSIVE parseExpr(_, _), parseExprLoop(_, _, _), parseUnaryExpr(_),
          parseBinaryExpr(_, _, _)

\* The loop of parseExpr: while infRule.prec > prec, apply the led.
parseExprLoop(p, root, prec) ==
  LET infRule == exprRuleTable(p.current.Kind)
  IN IF ~p.panicked /\ infRule.prec > prec
     THEN Let(parseBinaryExpr(p, root, infRule.prec), LAMBDA r :
            parseExprLoop(r.p, r.node, prec))
     ELSE PR(p, root)

parseExpr(p, prec) ==
  IF p.panicked THEN PR(p, Nil)
  ELSE LET token == p.current
           prefRule == exprRuleTable(token.Kind)
       IN IF prefRule.nud = "nil"
          THEN Let(parser_next(expectMsg(p, "expression")), LAMBDA p1 :
                 PR(p1, BadNode(token.Pos, p1.current.Pos)))
          ELSE Let(CASE prefRule.nud = "parseBasicLit" -> parseBasicLit(p)
                     [] prefRule.nud = "parseQualNameExpr" -> parseQualNameExpr(p)
                     [] prefRule.nud = "parseUnaryExpr" -> parseUnaryExpr(p),
                   LAMBDA r : parseExprLoop(r.p, r.node, prec))

parseUnaryExpr(p) ==
  Let(parseExpr(parser_next(p), precUnary), LAMBDA r :
    PR(r.p, UnaryExpr(p.current.Pos, p.current.Kind, r.node)))

\* parseBinaryExpr with a slip: the right operand is parsed one level lower,
\* which makes the operators right-associative.
parseBinaryExpr_lowerRhs(p, lhs, prec) ==
  Let(parseExpr(parser_next(p), prec - 1), LAMBDA r :
    PR(r.p, BinaryExpr(p.current.Kind, lhs, r.node)))

parseBinaryExpr(p, lhs, prec) ==
  Let(parseExpr(parser_next(p), prec), LAMBDA r :
    PR(r.p, BinaryExpr(p.current.Kind, lhs, r.node)))

\* parseImportSpec with a slip: an import whose path is no string is not
\* appended to p.imports.
parseImportSpec_dropsMalformed(p) ==
  LET token == p.current
      path == IF token.Kind = STRING_ THEN token.Value ELSE <<>>
  IN Let(accept(IF token.Kind = STRING_ THEN parser_next(p)
                ELSE sync(parser_err(p, token.Pos,
                                     Msg("import path must be a string", "", <<>>)),
                          semiOnly),
                AS), LAMBDA a :
     Let(IF a.ok THEN parseName(a.p) ELSE PR(a.p, Nil), LAMBDA al :
     Let(ImportSpec(BasicLit(STRING_, token.Pos, path), al.node), LAMBDA spec :
       PR(IF al.p.panicked \/ token.Kind # STRING_ THEN al.p
          ELSE [al.p EXCEPT !.imports = Append(@, spec)], spec))))

parseImportSpec(p) ==
  LET token == p.current
      path == IF token.Kind = STRING_ THEN token.Value ELSE <<>>
  IN Let(accept(IF token.Kind = STRING_ THEN parser_next(p)
                ELSE sync(parser_err(p, token.Pos,
                                     Msg("import path must be a string", "", <<>>)),
                          semiOnly),
                AS), LAMBDA a :
     Let(IF a.ok THEN parseName(a.p) ELSE PR(a.p, Nil), LAMBDA al :
     Let(ImportSpec(BasicLit(STRING_, token.Pos, path), al.node), LAMBDA spec :
       PR(IF al.p.panicked THEN al.p
          ELSE [al.p EXCEPT !.imports = Append(@, spec)], spec))))

parseConstSpec(p) ==
  Let(parseName(p), LAMBDA name :
  Let(parseExpr(expect(name.p, ASSIGN).p, precNone), LAMBDA expr :
  Let(ConstSpec(name.node, expr.node), LAMBDA spec :
    PR(IF expr.p.panicked THEN expr.p
       ELSE [expr.p EXCEPT !.symtab =
               Append(@, Symbol(ConstSym, name.node, spec))], spec))))

\* parseDecl with the BadNode begun where sync stopped.
parseDecl_spanAfterSync(p) ==
  LET token == p.current
  IN IF token.Kind \in {IMPORT, CONST}
     THEN Let(IF token.Kind = IMPORT THEN parseImportSpec(parser_next(p))
              ELSE parseConstSpec(parser_next(p)), LAMBDA decl :
            PR(expect(decl.p, SEMICOLON).p, decl.node))
     ELSE Let(sync(expectMsg(p, "declaration"), declStart), LAMBDA p1 :
            PR(p1, BadNode(p1.current.Pos, p1.current.Pos)))

parseDecl(p) ==
  LET token == p.current
  IN IF token.Kind \in {IMPORT, CONST}
     THEN Let(IF token.Kind = IMPORT THEN parseImportSpec(parser_next(p))
              ELSE parseConstSpec(parser_next(p)), LAMBDA decl :
            PR(expect(decl.p, SEMICOLON).p, decl.node))
     ELSE Let(sync(expectMsg(p, "declaration"), declStart), LAMBDA p1 :
            PR(p1, BadNode(token.Pos, p1.current.Pos)))

\* Parse's result.
ParsedFile(p, ns) ==
  [File |-> File(ns), Imports |-> p.imports, Symtab |-> p.symtab,
   Lines |-> Lines(p.scanner), Errors |-> p.errors]

---------------------------------------------------------------------------
(* Inputs                                                                  *)

SeqsUpTo(S, n) == UNION {[1..k -> S] : k \in 0..n}

RECURSIVE Flatten(_)
Flatten(ss) == IF ss = <<>> THEN <<>> ELSE Head(ss) \o Flatten(Tail(ss))

MaxScanLen == 4

\* Texts over four alphabets: the characters that begin and separate tokens,
\* those of number literals, those of string literals and their escapes
\* (after an opening quote), and the characters load reports.
ScanAlphabet == {"a", "1", ".", " ", NL, ";", DQ, "/", "&"}

NumberAlphabet == {"0", "1", "8", "x", "b", "e", "_", ".", "+"}

StringAlphabet == {BSL, DQ, "n", "x", "u", "U", "1", "f", NL}

LoadAlphabet == {NUL, BOM, BAD, "a", NL, ";"}

\* Number literals of the scanner's tests: 0o8123, 0123, 0123. and 0123e1,
\* and 0b01a0, 0o12a3, 1f, 0x1g and 1e+f.
LiteralTexts ==
  { <<"0","o","8","1","2","3">>, <<"0","1","2","3">>, <<"0","1","2","3",".">>,
    <<"0","1","2","3","e","1">>,
    <<"0","b","0","1","a","0">>, <<"0","o","1","2","a","3">>, <<"1","f">>,
    <<"0","x","1","g">>, <<"1","e","+","f">> }

ScanInputs ==
  LiteralTexts
    \cup SeqsUpTo(ScanAlphabet, MaxScanLen)
    \cup SeqsUpTo(NumberAlphabet, MaxScanLen)
    \cup {<<DQ>> \o s : s \in SeqsUpTo(StringAlphabet, MaxScanLen)}
    \cup SeqsUpTo(LoadAlphabet, MaxScanLen)

---------------------------------------------------------------------------
(* A client of the scanner: New, then Scan again and again.                *)

InitScan ==
  /\ text \in ScanInputs
  /\ sc = New(text, TRUE)
  /\ tok = ZeroToken
  /\ prev = ZeroToken
  /\ ps = ZeroParser
  /\ nodes = <<>>
  /\ ret = Nil
  /\ visitor = Nil
  /\ events = <<>>
  /\ pc = "Scan"

\* What a Scan call leaves: the scanner after it and the token.
Scanned(r) ==
  /\ sc' = r.s
  /\ tok' = r.token

ScanCall ==
  /\ pc = "Scan"
  /\ Scanned(Scan(sc))
  /\ prev' = tok
  /\ UNCHANGED <<text, ps, nodes, ret, pc, visitor, events>>

NextScan == ScanCall

SpecScan == InitScan /\ [][NextScan]_vars

---------------------------------------------------------------------------
(* Properties of the scanner, stated of SpecScan                           *)

\* The characters Scan has still to consume: the current one and the unread.
Remaining(s) ==
  (Len(s.text) - s.rdoffset) + (IF s.current = endmarker THEN 0 ELSE 1)

\* C3: every call of Scan that does not return ENDMARKER consumes at least
\* one character (so at most as many such calls as the input has characters
\* come before the first ENDMARKER), and once Scan has returned ENDMARKER
\* every later call returns ENDMARKER again at the same position.
C3_ScanConsumesUntilEndmarker ==
  [][ /\ Remaining(sc') >= 0
      /\ tok'.Kind # ENDMARKER => Remaining(sc') < Remaining(sc)
      /\ tok.Kind = ENDMARKER => (tok'.Kind = ENDMARKER /\ tok'.Pos = tok.Pos)
    ]_vars

\* A second ENDMARKER after a non-empty input was consumed token by token.
C3_Witness ==
  /\ Len(text) >= 2
  /\ prev.Kind = ENDMARKER /\ prev.Value = EndmarkerValue
  /\ tok.Kind = ENDMARKER /\ tok.Pos = prev.Pos
  /\ Remaining(sc) = 0

\* C4: the positions of the tokens successive Scan calls return never
\* decrease in the (line, column) order.
C4_PositionsNonDecreasing ==
  \/ prev.Pos.Line < tok.Pos.Line
  \/ /\ prev.Pos.Line = tok.Pos.Line
     /\ prev.Pos.Column <= tok.Pos.Column

\* A token on a later line than the token before it, not at the line's start.
C4_Witness ==
  /\ prev # ZeroToken
  /\ prev.Pos.Column > 0
  /\ prev.Pos.Line < tok.Pos.Line
  /\ tok.Pos.Column > 0
  /\ tok.Kind # ENDMARKER

\* The index in src of the first character of line number line (New skips a
\* byte order mark at the start of the text).
LineStart(src, line) ==
  IF line = 0 THEN (IF src # <<>> /\ src[1] = BOM THEN 2 ELSE 1)
  ELSE 1 + CHOOSE i \in 1..Len(src) :
             /\ src[i] = NL
             /\ Cardinality({j \in 1..i : src[j] = NL}) = line

\* The character of src at position pos, endmarker past the end.
CharAt(src, pos) ==
  LET i == LineStart(src, pos.Line) + pos.Column
  IN IF i <= Len(src) THEN src[i] ELSE endmarker

\* C7 as stated: no token returned by Scan has kind SEMICOLON.
C7_ScanNeverSemicolon == tok.Kind # SEMICOLON

\* C7, amended: Scan returns SEMICOLON exactly for the tokens that begin at a
\* ';' character of the source (the token's text is that one character); a
\* line break yields NEWLINE and the end of input ENDMARKER, never SEMICOLON.
C7_SemicolonOnlyFromSource ==
  tok # ZeroToken =>
    /\ tok.Kind = SEMICOLON <=> CharAt(text, tok.Pos) = ";"
    /\ tok.Kind = SEMICOLON => tok.Value = <<";">>
    /\ CharAt(text, tok.Pos) = NL => tok.Kind = NEWLINE
    /\ CharAt(text, tok.Pos) = endmarker => tok.Kind = ENDMARKER

\* Scan has returned a SEMICOLON for a ';' that follows a line break.
C7_Witness ==
  /\ prev.Kind = NEWLINE
  /\ tok.Kind = SEMICOLON
  /\ CharAt(text, tok.Pos) = ";"

---------------------------------------------------------------------------
(* Parse(text): p.init, then the loop of parser.parse, one parseDecl call  *)
(* a step, then the return of the ParsedFile.  A run-time panic ends the   *)
(* run at pc = "panic": Parse returns nothing.                             *)

MaxFrags == 3

Fragments ==
  { <<"i","m","p","o","r","t"," ",DQ,"a",DQ,NL>>,     \* import "a"\n
    <<"c","o","n","s","t"," ","k","=","1",NL>>,       \* const k=1\n
    <<NL>>,
    <<"c","o","n","s","t"," ">>,
    <<"="," ","1">>,
    <<"t","y","p","e">>,
    <<"s","t","r","u","c","t"," ">>,
    <<"x"," ">>,
    <<"+"," ">>,
    <<"i","m","p","o","r","t"," ">>,
    <<";">>,
    <<"&">>,                                          \* an illegal character
    <<DQ, "s">> }                                     \* an unterminated string

ParseInputs == {Flatten(fs) : fs \in SeqsUpTo(Fragments, MaxFrags)}

Init ==
  /\ text \in ParseInputs
  /\ sc = Nil
  /\ tok = ZeroToken
  /\ prev = ZeroToken
  /\ ps = ZeroParser
  /\ nodes = <<>>
  /\ ret = Nil
  /\ visitor = Nil
  /\ events = <<>>
  /\ pc = "Parse"

\* p := &parser{}; p.init(text)
Parse_init ==
  /\ pc = "Parse"
  /\ ps' = init(text)
  /\ pc' = IF ps'.panicked THEN "panic" ELSE "parse"
  /\ UNCHANGED <<text, sc, tok, prev, nodes, ret, visitor, events>>

\* What a parseDecl call leaves: the parser after it and the node appended.
Declared(r) ==
  /\ ps' = r.p
  /\ nodes' = IF r.p.panicked THEN nodes ELSE Append(nodes, r.node)
  /\ pc' = IF r.p.panicked THEN "panic" ELSE "parse"

\* One iteration of the loop of parse: nodes = append(nodes, p.parseDecl())
parse_loop ==
  /\ pc = "parse"
  /\ ps.current.Kind # ENDMARKER
  /\ Declared(parseDecl(ps))
  /\ UNCHANGED <<text, sc, tok, prev, ret, visitor, events>>

\* The loop ends; Parse returns the ParsedFile.
Parse_return ==
  /\ pc = "parse"
  /\ ps.current.Kind = ENDMARKER
  /\ ret' = ParsedFile(ps, nodes)
  /\ pc' = "done"
  /\ UNCHANGED <<text, sc, tok, prev, ps, nodes, visitor, events>>

Next == Parse_init \/ parse_loop \/ Parse_return

Spec == Init /\ [][Next]_vars


---------------------------------------------------------------------------
(* Properties of Parse, stated of Spec                                     *)

\* C1: Parse never fails at run time and returns a ParsedFile whose File is
\* there; problems show only as entries of Errors.
C1_ParseNeverPanics ==
  /\ pc # "panic"
  /\ ~ps.panicked
  /\ pc = "done" => ret.File.type = "File"

\* C2: Parse terminates with the loop of parse seeing ENDMARKER: whenever
\* the run is past the loop, the loop ended at ENDMARKER and Parse returned.
C2_ParseEndsAtEndmarker ==
  pc \notin {"Parse", "parse"} =>
    /\ pc = "done"
    /\ ps.current.Kind = ENDMARKER
    /\ ret # Nil

\* C5 as stated: every diagnostic's line is an index of Lines.
C5_ErrorLineInLines ==
  pc = "done" =>
    \A i \in 1..Len(ret.Errors) :
      /\ 0 <= ret.Errors[i].Pos.Line
      /\ ret.Errors[i].Pos.Line < Len(ret.Lines)

\* C5, amended: every diagnostic's line is at most len(Lines), and it is
\* len(Lines) only for a diagnostic at the end of input (the position of the
\* ENDMARKER token, column 0) of a text that ends with a newline; every other
\* diagnostic's line is an index of Lines.
C5_ErrorLineAtMostLines ==
  pc = "done" =>
    \A i \in 1..Len(ret.Errors) :
      LET e == ret.Errors[i]
      IN /\ 0 <= e.Pos.Line
         /\ e.Pos.Line <= Len(ret.Lines)
         /\ e.Pos.Line = Len(ret.Lines) =>
              /\ e.Pos = ps.current.Pos
              /\ e.Pos.Column = 0
              /\ text # <<>>
              /\ text[Len(text)] = NL

\* Parse has returned diagnostics of both sorts: one on a line of Lines and
\* one at the end of input, on the line after the last.
C5_Witness ==
  /\ pc = "done"
  /\ \E i \in 1..Len(ret.Errors) : ret.Errors[i].Pos.Line < Len(ret.Lines)
  /\ \E i \in 1..Len(ret.Errors) : ret.Errors[i].Pos.Line = Len(ret.Lines)

ImportsMisplaced == Msg("imports must appear before other declarations", "", <<>>)

\* The imports of ns that come after a node that is no import.
LateImports(ns) ==
  {i \in 1..Len(ns) :
     /\ ns[i].type = "ImportSpec"
     /\ \E j \in 1..(i - 1) : ns[j].type # "ImportSpec"}

\* C9: every import parsed after a declaration that is no import gets one
\* diagnostic 'imports must appear before other declarations', and stays in
\* File.Nodes.
C9_LateImportReported ==
  pc = "done" =>
    Cardinality({k \in 1..Len(ret.Errors) : ret.Errors[k].Message = ImportsMisplaced})
      = Cardinality(LateImports(ret.File.Nodes))

\* const = 1 and a newline
ConstNoName == <<"c","o","n","s","t"," ","="," ","1",NL>>

ExpectedIdentifier ==
  ErrorInfo(MkPos(0, 6), Msg("expected %s, found '%s'", "'IDENTIFIER'", <<"=">>))

\* C10 as stated: for const = 1 Parse records the one diagnostic "expected
\* 'IDENTIFIER', found '='" at the '=' and returns one ConstSpec with the
\* sentinel name whose Expr is BasicLit(INTEGER, "1").
C10_OneDiagnostic ==
  (pc = "done" /\ text = ConstNoName) =>
    /\ ret.Errors = <<ExpectedIdentifier>>
    /\ Len(ret.File.Nodes) = 1
    /\ ret.File.Nodes[1].type = "ConstSpec"
    /\ ret.File.Nodes[1].Name.Name = <<"@">>
    /\ ret.File.Nodes[1].Expr.type = "BasicLit"
    /\ ret.File.Nodes[1].Expr.Kind = INTEGER
    /\ ret.File.Nodes[1].Expr.Value = <<"1">>

\* C10, amended: for const = 1 Parse records "expected 'IDENTIFIER', found
\* '='" at the '=' as the first of four diagnostics (expect consumes the '=',
\* so "expected '=', found '1'", "expected expression, found 'newline'" and
\* "expected ';', found 'endmarker'" follow) and returns one ConstSpec with
\* the sentinel name at the '=' whose Expr is a BadNode.
C10_FirstOfFourDiagnostics ==
  (pc = "done" /\ text = ConstNoName) =>
    /\ ret.Errors =
         << ExpectedIdentifier,
            ErrorInfo(MkPos(0, 8), Msg("expected %s, found '%s'", "'='", <<"1">>)),
            ErrorInfo(MkPos(0, 9),
                      Msg("expected %s, found '%s'", "expression", NewlineValue)),
            ErrorInfo(MkPos(1, 0),
                      Msg("expected %s, found '%s'", "';'", EndmarkerValue)) >>
    /\ Len(ret.File.Nodes) = 1
    /\ ret.File.Nodes[1].type = "ConstSpec"
    /\ ret.File.Nodes[1].Name = Name(MkPos(0, 6), <<"@">>)
    /\ ret.File.Nodes[1].Expr = BadNode(MkPos(0, 9), MkPos(1, 0))
    /\ ret.Symtab = <<Symbol(ConstSym, ret.File.Nodes[1].Name, ret.File.Nodes[1])>>

\* Parse has returned for const = 1.
C10_Witness ==
  /\ pc = "done"
  /\ text = ConstNoName
  /\ Len(ret.Errors) > 0
  /\ ret.Errors[1] = ExpectedIdentifier

---------------------------------------------------------------------------
(* The token stream of the parser: p.next() called again and again, as     *)
(* init and the parsing functions call it.                                 *)

\* A text that scans as one token of the kind.
Lexeme(kind) ==
  CASE kind = LEFT_PAREN -> <<"(">>   [] kind = RIGHT_PAREN -> <<")">>
    [] kind = LEFT_BRACK -> <<"[">>   [] kind = RIGHT_BRACK -> <<"]">>
    [] kind = LEFT_BRACE -> <<"{">>   [] kind = RIGHT_BRACE -> <<"}">>
    [] kind = COMMA -> <<",">>        [] kind = DOT -> <<".">>
    [] kind = COLON -> <<":">>        [] kind = SEMICOLON -> <<";">>
    [] kind = ARROW -> <<"-", ">">>   [] kind = QMARK -> <<"?">>
    [] kind = ASSIGN -> <<"=">>       [] kind = AT -> <<"@">>
    [] kind = PLUS -> <<"+">>         [] kind = MINUS -> <<"-">>
    [] kind = MULT -> <<"*">>         [] kind = DIV -> <<"/">>
    [] kind = MOD -> <<"%">>          [] kind = AND -> <<"&", "&">>
    [] kind = OR -> <<"|", "|">>      [] kind = EQ -> <<"=", "=">>
    [] kind = GE -> <<">", "=">>      [] kind = GT -> <<">">>
    [] kind = LE -> <<"<", "=">>      [] kind = LT -> <<"<">>
    [] kind = NEQ -> <<"!", "=">>     [] kind = NOT -> <<"!">>
    [] kind = IDENTIFIER -> <<"a">>   [] kind = STRING_ -> <<DQ, "s", DQ>>
    [] kind = INTEGER -> <<"1">>      [] kind = FLOAT -> <<"1", ".", "5">>
    [] OTHER -> CHOOSE v \in DOMAIN keywords : keywords[v] = kind

\* The kinds of the tokens a text can hold.
LexemeKinds ==
  (LEFT_PAREN..NOT) \cup {IDENTIFIER, STRING_, INTEGER, FLOAT} \cup (AS..FUNC)

MaxTail == 2

TailAlphabet == {NL, "a", "/"}

\* One token of every kind and what follows it, with and without a space.
NextInputs ==
  {Lexeme(k) \o sep \o tail :
     k \in LexemeKinds, sep \in {<<>>, <<" ">>},
     tail \in SeqsUpTo(TailAlphabet, MaxTail)}

\* The parser as init leaves it before its call of next.
InitNext ==
  /\ text \in NextInputs
  /\ ps = Handled(ZeroParser, New(text, TRUE))
  /\ sc = Nil
  /\ tok = ZeroToken
  /\ prev = ZeroToken
  /\ nodes = <<>>
  /\ ret = Nil
  /\ visitor = Nil
  /\ events = <<>>
  /\ pc = "next"

\* p.next(): prev is the token that was current, tok the token its first
\* p.scan(true) got, sc the scanner as the call found it.
next_call ==
  /\ pc = "next"
  /\ ps.current.Kind # ENDMARKER
  /\ ps' = parser_next(ps)
  /\ prev' = ps.current
  /\ tok' = scan(ps, TRUE).token
  /\ sc' = ps.scanner
  /\ pc' = IF ps'.panicked THEN "panic" ELSE "next"
  /\ UNCHANGED <<text, nodes, ret, visitor, events>>

NextNext == next_call

SpecNext == InitNext /\ [][NextNext]_vars

SemicolonKinds ==
  {RIGHT_BRACE, RIGHT_BRACK, RIGHT_PAREN, INTEGER, FLOAT, IDENTIFIER,
   STRING_, TRUE_, FALSE_, NULL}

\* The first token from scanner s on that is no newline (nor a comment or an
\* illegal token, which the parser never sees).
RECURSIVE NextNonNewline(_)
NextNonNewline(s) ==
  LET r == Scan(s)
  IN IF r.token.Kind \in {NEWLINE, COMMENT, ILLEGAL} THEN NextNonNewline(r.s)
     ELSE r.token

\* C6: when the scanner hands next() a NEWLINE or ENDMARKER t, next() delivers
\* t with kind SEMICOLON and its position kept exactly when the kind of the
\* previous token is one of the ten listed; otherwise it delivers the next
\* token that is no newline for a NEWLINE, and t itself for an ENDMARKER --
\* for every kind the previous token can have.
C6_SemicolonInsertion ==
  (sc # Nil /\ tok.Kind \in {NEWLINE, ENDMARKER}) =>
    /\ ~ps.panicked
    /\ ps.current =
         IF prev.Kind \in SemicolonKinds THEN [tok EXCEPT !.Kind = SEMICOLON]
         ELSE IF tok.Kind = ENDMARKER THEN tok
         ELSE NextNonNewline(sc)

---------------------------------------------------------------------------
(* Expressions: parseExpr(precNone) on the text of an expression           *)

MaxExprTokens == 5

PrimaryKinds == {INTEGER, IDENTIFIER}

PrefixKinds == {MINUS, NOT}

BinaryKinds == {OR, AND, EQ, NEQ, LT, LE, GT, GE, PLUS, MINUS, MULT, DIV, MOD}

\* The kind sequences of n tokens that are an operand: prefix operators and
\* a primary.
RECURSIVE Operands(_)
Operands(n) ==
  IF n <= 0 THEN {}
  ELSE IF n = 1 THEN {<<k>> : k \in PrimaryKinds}
  ELSE {<<u>> \o o : u \in PrefixKinds, o \in Operands(n - 1)}

\* The kind sequences of n tokens that are an expression: operands with a
\* binary operator between each two.
RECURSIVE Exprs(_)
Exprs(n) ==
  Operands(n) \cup
    UNION {{e \o <<b>> \o o : e \in Exprs(k), b \in BinaryKinds,
                             o \in Operands(n - k - 1)} : k \in 1..(n - 2)}

\* The text of a kind sequence: the lexemes, a space after each.
RECURSIVE Render(_)
Render(ks) ==
  IF ks = <<>> THEN <<>> ELSE Lexeme(Head(ks)) \o <<" ">> \o Render(Tail(ks))

\* What Render was given: the kinds of the lexemes of the text, each the
\* characters up to the next space.
RECURSIVE KindsFrom(_, _)
KindsFrom(src, word) ==
  IF src = <<>> THEN <<>>
  ELSE IF Head(src) = " "
  THEN <<CHOOSE k \in LexemeKinds : Lexeme(k) = word>> \o KindsFrom(Tail(src), <<>>)
  ELSE KindsFrom(Tail(src), Append(word, Head(src)))

Kinds(src) == KindsFrom(src, <<>>)

ExprKindSeqs == UNION {Exprs(n) : n \in 1..MaxExprTokens}

ExprInputs == {Render(ks) : ks \in ExprKindSeqs}

InitExpr ==
  /\ text \in ExprInputs
  /\ ps = ZeroParser
  /\ sc = Nil
  /\ tok = ZeroToken
  /\ prev = ZeroToken
  /\ nodes = <<>>
  /\ ret = Nil
  /\ visitor = Nil
  /\ events = <<>>
  /\ pc = "Expr"

\* What the parseExpr call leaves: the parser after it and the node.
Parsed(r) ==
  /\ ps' = r.p
  /\ ret' = r.node
  /\ pc' = IF r.p.panicked THEN "panic" ELSE "done"

\* p.init(text); p.parseExpr(precNone)
parseExpr_call ==
  /\ pc = "Expr"
  /\ Parsed(parseExpr(init(text), precNone))
  /\ UNCHANGED <<text, sc, tok, prev, nodes, visitor, events>>

NextExpr == parseExpr_call

SpecExpr == InitExpr /\ [][NextExpr]_vars

\* The reference grammar, on kind sequences.  Its levels, lowest first:
\* ||, &&, the comparisons, + -, * / %.
RefLevel(kind) ==
  CASE kind = OR -> 1
    [] kind = AND -> 2
    [] kind \in {EQ, NEQ, LT, LE, GT, GE} -> 3
    [] kind \in {PLUS, MINUS} -> 4
    [] kind \in {MULT, DIV, MOD} -> 5

Leaf(kind) == [t |-> "leaf", kind |-> kind]

Un(op, x) == [t |-> "un", op |-> op, x |-> x]

Bin(op, l, r) == [t |-> "bin", op |-> op, l |-> l, r |-> r]

\* The tree of the reference grammar: an operator is binary where a primary
\* precedes it; the root is the last of the binary operators of the lowest
\* level (left associativity); with no binary operator a prefix operator
\* applies to the rest.
RECURSIVE RefTree(_)
RefTree(ks) ==
  LET bin == {i \in 2..Len(ks) : ks[i] \in BinaryKinds /\ ks[i - 1] \in PrimaryKinds}
  IN IF bin = {}
     THEN IF Len(ks) = 1 THEN Leaf(ks[1])
          ELSE Un(ks[1], RefTree(Tail(ks)))
     ELSE LET low == CHOOSE l \in 1..5 :
                       /\ \E i \in bin : RefLevel(ks[i]) = l
                       /\ \A i \in bin : RefLevel(ks[i]) >= l
              root == CHOOSE i \in bin :
                        /\ RefLevel(ks[i]) = low
                        /\ \A j \in bin : RefLevel(ks[j]) = low => j <= i
          IN Bin(ks[root], RefTree(SubSeq(ks, 1, root - 1)),
                 RefTree(SubSeq(ks, root + 1, Len(ks))))

\* The shape of a node the parser built: positions and lexemes dropped.
RECURSIVE Shape(_)
Shape(n) ==
  CASE n.type = "BasicLit" -> Leaf(n.Kind)
    [] n.type = "QualName" /\ n.Module = Nil -> Leaf(IDENTIFIER)
    [] n.type = "UnaryExpr" -> Un(n.Op, Shape(n.Expr))
    [] n.type = "BinaryExpr" -> Bin(n.Op, Shape(n.Lhs), Shape(n.Rhs))
    [] OTHER -> [t |-> "other"]

\* C8: for every expression of literals, names, prefix - and ! and the binary
\* operators, parseExpr(precNone) returns the tree of the reference grammar
\* (levels || < && < comparison < + - < * / % < unary, every binary operator
\* left-associative, a prefix operator applied to its operand only), with no
\* diagnostic.
C8_ParseExprIsReferenceTree ==
  pc # "Expr" =>
    /\ pc = "done"
    /\ ps.errors = <<>>
    /\ Kinds(text) \in ExprKindSeqs
    /\ Shape(ret) = RefTree(Kinds(text))

\* Two subtractions in a row, parsed as (x - y) - z.
C8_Witness ==
  /\ pc = "done"
  /\ ret.type = "BinaryExpr" /\ ret.Op = MINUS
  /\ ret.Lhs.type = "BinaryExpr" /\ ret.Lhs.Op = MINUS
  /\ ret.Lhs.Rhs.type = "BasicLit"
  /\ ret.Rhs.type = "QualName"

---------------------------------------------------------------------------
(* Parse on whole declarations: texts built of the words of declarations,  *)
(* with line breaks and comments between the words and after them.         *)

MaxDecls == 2

Comment == <<"/", "/", "c">>

\* import "a"
ImportWords == <<Lexeme(IMPORT), <<DQ, "a", DQ>> >>

\* import "a" as f
ImportAsWords == <<Lexeme(IMPORT), <<DQ, "a", DQ>>, Lexeme(AS), <<"f">> >>

\* const x = 1
ConstWords == <<Lexeme(CONST), <<"x">>, <<"=">>, <<"1">> >>

\* const x = f + 1
ConstSumWords == <<Lexeme(CONST), <<"x">>, <<"=">>, <<"f">>, <<"+">>, <<"1">> >>

\* type N = T
TypeWords == <<Lexeme(TYPE), <<"N">>, <<"=">>, <<"T">> >>

\* struct N { }
StructWords == <<Lexeme(STRUCT), <<"N">>, <<"{">>, <<"}">> >>

\* What can stand between two words where a space can: a line break, or a
\* comment and the line break that ends it.
Breaks == {<<NL>>, <<" ">> \o Comment \o <<NL>>}

\* The words that end no declaration: a line break after them is skipped.
OpenWords == {Lexeme(IMPORT), Lexeme(CONST), Lexeme(AS), <<"=">>, <<"+">>}

\* The words ws with one space between them, but brk after word g.
RECURSIVE Join(_, _, _)
Join(ws, g, brk) ==
  IF Len(ws) <= 1 THEN Flatten(ws)
  ELSE Head(ws) \o (IF g = 1 THEN brk ELSE <<" ">>) \o Join(Tail(ws), g - 1, brk)

\* The text of a declaration on one line.
Plain(ws) == Join(ws, 0, <<>>)

\* The texts of a declaration with one break, after any word but the last,
\* and those with the break after an open word.
AnyBreak(ws) == {Join(ws, g, b) : g \in 1..(Len(ws) - 1), b \in Breaks}

OpenBreak(ws) ==
  {Join(ws, g, b) : g \in {i \in 1..(Len(ws) - 1) : ws[i] \in OpenWords},
                    b \in Breaks}

\* The lines that hold no declaration.
Blank == {<<NL>>, Comment \o <<NL>>}

\* The texts of up to MaxDecls items, an item being a declaration on one line
\* and a line break or a comment after it, a declaration of broken and a line
\* break, or a blank line; and the same texts with the last line break left
\* out, so that the end of input ends the last item.
Texts(plain, broken) ==
  LET items == {b \o e : b \in plain, e \in Breaks}
                 \cup {b \o <<NL>> : b \in broken} \cup Blank
      whole == {Flatten(is) : is \in SeqsUpTo(items, MaxDecls)}
  IN whole \cup {SubSeq(t, 1, Len(t) - 1) : t \in whole \ {<<>>}}

PlainDecls ==
  {Plain(ImportWords), Plain(ImportAsWords), Plain(ConstWords), Plain(ConstSumWords)}

\* Well-formed import and const declarations, broken anywhere between words.
WellFormedInputs ==
  Texts(PlainDecls, AnyBreak(ImportWords) \cup AnyBreak(ImportAsWords)
                      \cup AnyBreak(ConstWords))

\* The same, broken only after an open word.
UnbrokenInputs ==
  Texts(PlainDecls, OpenBreak(ImportWords) \cup OpenBreak(ImportAsWords)
                      \cup OpenBreak(ConstWords))

\* type N = T and a newline
TypeAliasLine == Plain(TypeWords) \o <<NL>>

\* struct N { } and a newline
StructLine == Plain(StructWords) \o <<NL>>

\* struct Pair { a: int; b: T[U, V,] } and a newline
StructPairLine ==
  <<"s","t","r","u","c","t"," ","P","a","i","r"," ","{"," ",
    "a",":"," ","i","n","t",";"," ",
    "b",":"," ","T","[","U",","," ","V",",","]"," ","}",NL>>

DeclInputs ==
  WellFormedInputs \cup {TypeAliasLine, StructLine, StructPairLine}
    \cup {Plain(ConstWords) \o <<NL>> \o TypeAliasLine}

InitDecl ==
  /\ text \in DeclInputs
  /\ sc = Nil
  /\ tok = ZeroToken
  /\ prev = ZeroToken
  /\ ps = ZeroParser
  /\ nodes = <<>>
  /\ ret = Nil
  /\ visitor = Nil
  /\ events = <<>>
  /\ pc = "Parse"

NextDecl == Parse_init \/ parse_loop \/ Parse_return

SpecDecl == InitDecl /\ [][NextDecl]_vars

\* The node types Parse has returned, in order.
NodeTypes == [i \in 1..Len(ret.File.Nodes) |-> ret.File.Nodes[i].type]

\* C11: the keyword at the start of a declaration selects its production: a
\* well-formed type N = T yields one TypeAlias node and a well-formed
\* struct N { } one Struct node, with no diagnostic, as import and const yield
\* their ImportSpec and ConstSpec.
C11_KeywordSelectsProduction ==
  pc = "done" =>
    /\ text = TypeAliasLine => (ret.Errors = <<>> /\ NodeTypes = <<"TypeAlias">>)
    /\ text = StructLine => (ret.Errors = <<>> /\ NodeTypes = <<"Struct">>)
    /\ text = Plain(ImportWords) \o <<NL>> =>
         (ret.Errors = <<>> /\ NodeTypes = <<"ImportSpec">>)
    /\ text = Plain(ConstWords) \o <<NL>> =>
         (ret.Errors = <<>> /\ NodeTypes = <<"ConstSpec">>)

\* C12: for struct Pair { a: int; b: T[U, V,] } and a newline Parse records
\* no diagnostic and returns one Struct with two fields, the second of type
\* T with the arguments U and V: the last field is followed by '}' on its
\* line.
C12_StructPair ==
  (pc = "done" /\ text = StructPairLine) =>
    /\ ret.Errors = <<>>
    /\ NodeTypes = <<"Struct">>
    /\ Len(ret.File.Nodes[1].Fields) = 2
    /\ ret.File.Nodes[1].Fields[2].Type.Name.Name.Name = <<"T">>
    /\ Len(ret.File.Nodes[1].Fields[2].Type.Args) = 2
    /\ ret.File.Nodes[1].Fields[2].Type.Args[1].Name.Name.Name = <<"U">>
    /\ ret.File.Nodes[1].Fields[2].Type.Args[2].Name.Name.Name = <<"V">>

\* Does src begin with the word w?
StartsWith(src, w) == Len(src) >= Len(w) /\ SubSeq(src, 1, Len(w)) = w

\* The node types the keywords of src call for, in order (the texts of
\* DeclInputs hold the letters of import and const in these keywords only).
RECURSIVE DeclKeywords(_)
DeclKeywords(src) ==
  IF src = <<>> THEN <<>>
  ELSE IF StartsWith(src, Lexeme(IMPORT))
       THEN <<"ImportSpec">> \o DeclKeywords(SubSeq(src, 7, Len(src)))
  ELSE IF StartsWith(src, Lexeme(CONST))
       THEN <<"ConstSpec">> \o DeclKeywords(SubSeq(src, 6, Len(src)))
  ELSE DeclKeywords(Tail(src))

\* C13 as stated: for well-formed import and const declarations, each ended
\* by a newline or the end of input, with blank lines, whitespace and
\* comments anywhere between the tokens, Parse records no diagnostic and
\* File.Nodes holds one ImportSpec or ConstSpec per declaration.
C13_BreaksAnywhere ==
  (pc = "done" /\ text \in WellFormedInputs) =>
    /\ ret.Errors = <<>>
    /\ NodeTypes = DeclKeywords(text)

\* C13, amended: the same with whitespace anywhere between the tokens, and
\* blank lines and comments between the declarations and after a token that
\* is none of the ten after which a line break becomes a semicolon (after
\* import, const, as, '=' and the operators); File.Nodes is empty for the
\* empty text and for a text of whitespace and comments.
C13_BreaksAfterOpenTokens ==
  (pc = "done" /\ text \in UnbrokenInputs) =>
    /\ ret.Errors = <<>>
    /\ NodeTypes = DeclKeywords(text)
    /\ ret.Imports = SelectSeq(ret.File.Nodes, LAMBDA n : n.type = "ImportSpec")
    /\ text = Plain(ConstSumWords) \o <<NL>> =>
         ret.File.Nodes =
           <<ConstSpec(Name(MkPos(0, 6), <<"x">>),
                       BinaryExpr(PLUS,
                                  QualName(MkPos(0, 10),
                                           Name(MkPos(0, 10), <<"f">>), Nil),
                                  BasicLit(INTEGER, MkPos(0, 14), <<"1">>)))>>

\* Parse has returned for an import with an alias, a comment after it, and a
\* const with a line break after its '=' that the end of input ends.
C13_Witness ==
  /\ pc = "done"
  /\ text = Plain(ImportAsWords) \o <<" ">> \o Comment \o <<NL>>
              \o Join(ConstWords, 3, <<NL>>)
  /\ text \in UnbrokenInputs
  /\ NodeTypes = <<"ImportSpec", "ConstSpec">>
  /\ ret.File.Nodes[1].Alias = Name(MkPos(0, 14), <<"f">>)
  /\ ret.File.Nodes[2].Expr = BasicLit(INTEGER, MkPos(2, 0), <<"1">>)

---------------------------------------------------------------------------
(* The tree Parse returns                                                  *)

\* The nodes a node holds in its fields, in the order of the fields.
Children(n) ==
  CASE n.type = "File" -> n.Nodes
    [] n.type = "ImportSpec" -> <<n.Path>> \o (IF n.Alias = Nil THEN <<>> ELSE <<n.Alias>>)
    [] n.type = "ConstSpec" -> <<n.Name, n.Expr>>
    [] n.type = "QualName" -> <<n.Name>> \o (IF n.Module = Nil THEN <<>> ELSE <<n.Module>>)
    [] n.type = "UnaryExpr" -> <<n.Expr>>
    [] n.type = "BinaryExpr" -> <<n.Lhs, n.Rhs>>
    [] OTHER -> <<>>

\* The node and every node below it.
RECURSIVE Tree(_)
Tree(n) ==
  {n} \cup UNION {Tree(Children(n)[i]) : i \in 1..Len(Children(n))}

BadNodes(n) == {b \in Tree(n) : b.type = "BadNode"}

\* Position order.
PosLeq(a, b) == ~Greater(a, b)

\* C14: every BadNode of the tree Parse returns has From <= To and there is
\* a diagnostic in Errors at a position from From to To.
C14_BadNodeHasDiagnostic ==
  pc = "done" =>
    \A b \in BadNodes(ret.File) :
      /\ PosLeq(b.From, b.To)
      /\ \E i \in 1..Len(ret.Errors) :
           /\ PosLeq(b.From, ret.Errors[i].Pos)
           /\ PosLeq(ret.Errors[i].Pos, b.To)

\* Parse has returned a tree with a BadNode for a declaration, over the
\* tokens sync skipped, and a BadNode for an expression.
C14_Witness ==
  /\ pc = "done"
  /\ \E i \in 1..Len(ret.File.Nodes) :
       /\ ret.File.Nodes[i].type = "BadNode"
       /\ Greater(ret.File.Nodes[i].To, ret.File.Nodes[i].From)
  /\ \E i \in 1..Len(ret.File.Nodes) :
       /\ ret.File.Nodes[i].type = "ConstSpec"
       /\ BadNodes(ret.File.Nodes[i]) # {}

\* The tokens the scanner delivers for src, up to the ENDMARKER.
RECURSIVE TokensFrom(_)
TokensFrom(s) ==
  Let(Scan(s), LAMBDA r :
    IF r.token.Kind = ENDMARKER THEN <<>> ELSE <<r.token>> \o TokensFrom(r.s))

Tokens(src) == TokensFrom(New(src, TRUE))

\* The kinds of the tokens that stand in the tree as a node of their own.
ValueKinds == {IDENTIFIER, INTEGER, FLOAT, STRING_, TRUE_, FALSE_, NULL}

\* The position a leaf of the tree stands at.
Represents(n, pos) ==
  \/ n.type = "BasicLit" /\ n.ValuePos = pos
  \/ n.type = "Name" /\ n.NamePos = pos

\* C15: every identifier and literal token the scanner delivers is, after
\* Parse, at the position of a node of the returned tree or inside the span
\* from From to To of a BadNode of it: expect on a mismatch and sync lose no
\* token outside a BadNode.  (Of the tokens the claim speaks of, these are
\* the ones a node stands for by itself.)
C15_NoTokenLost ==
  pc = "done" =>
    \A i \in 1..Len(Tokens(text)) :
      Let(Tokens(text)[i], LAMBDA t :
        t.Kind \in ValueKinds =>
          \/ \E n \in Tree(ret.File) : Represents(n, t.Pos)
          \/ \E b \in BadNodes(ret.File) :
               PosLeq(b.From, t.Pos) /\ PosLeq(t.Pos, b.To))

---------------------------------------------------------------------------
(* pkg/ast/walk.go: Visitor and Walk.  A Visitor is known by its id; what  *)
(* its Visit returns is its own choice: null for the node types in skip,   *)
(* otherwise itself or, when fresh, a new Visitor (as the printer makes    *)
(* one for every level).  Walk returns the calls it made and whether it    *)
(* panicked; a deferred Exit runs as the panic unwinds.                    *)

NoVisitor == -1

Visit(v, node) ==
  IF node.type \in v.skip THEN Nil
  ELSE IF v.fresh THEN [v EXCEPT !.id = @ + 1] ELSE v

VisitCall(v, node, w) ==
  [call |-> "Visit", on |-> v.id, node |-> node,
   w |-> IF w = Nil THEN NoVisitor ELSE w.id]

ExitCall(w, node) == [call |-> "Exit", on |-> w.id, node |-> node]

\* What a Walk call returns to its caller.
Walked(calls, panicked) == [events |-> calls, panicked |-> panicked]

RECURSIVE Walk(_, _), WalkEach(_, _), WalkChildren(_, _)

\* Walk(v, child) for the children in turn; a panic ends the turn.
WalkEach(v, children) ==
  IF children = <<>> THEN Walked(<<>>, FALSE)
  ELSE Let(Walk(v, Head(children)), LAMBDA r :
         IF r.panicked THEN r
         ELSE Let(WalkEach(v, Tail(children)), LAMBDA rest :
                Walked(r.events \o rest.events, rest.panicked)))

\* The switch on the node's type.
WalkChildren(v, n) ==
  CASE n.type \in {"BadNode", "BasicLit", "Name"} -> Walked(<<>>, FALSE)
    [] n.type = "QualName" ->
         WalkEach(v, <<n.Name>> \o (IF n.Module # Nil THEN <<n.Module>> ELSE <<>>))
    [] n.type = "UnaryExpr" -> WalkEach(v, <<n.Expr>>)
    [] n.type = "BinaryExpr" -> WalkEach(v, <<n.Lhs, n.Rhs>>)
    [] n.type = "Import" ->
         WalkEach(v, <<n.Path>> \o (IF n.Alias # Nil THEN <<n.Alias>> ELSE <<>>))
    [] n.type = "ConstDef" -> WalkEach(v, <<n.Name, n.Expr>>)
    [] n.type = "Type" -> WalkEach(v, <<n.Name>> \o n.Args)
    [] n.type = "TypeDef" -> WalkEach(v, <<n.Name, n.Type>>)
    [] n.type = "Field" -> WalkEach(v, <<n.Name, n.Type>>)
    [] n.type = "StructDef" -> WalkEach(v, <<n.Name>> \o n.Fields)
    [] n.type = "Module" -> WalkEach(v, n.Nodes)
    [] OTHER -> Walked(<<>>, TRUE)          \* panic: unexpected node type

Walk(v, node) ==
  Let(Visit(v, node), LAMBDA w :
    IF w = Nil THEN Walked(<<VisitCall(v, node, Nil)>>, FALSE)
    ELSE Let(WalkChildren(w, node), LAMBDA r :
           Walked(<<VisitCall(v, node, w)>> \o r.events \o <<ExitCall(w, node)>>,
                  r.panicked)))

---------------------------------------------------------------------------
(* Parse(text), then Walk(visitor, node) for a node of the returned tree   *)

MaxWalkDecls == 2

\* import "a" as f / const x = f + 1 / const x = -m.f / const x = / x
WalkLines ==
  { Plain(ImportAsWords) \o <<NL>>,
    Plain(ConstSumWords) \o <<NL>>,
    <<"c","o","n","s","t"," ","x"," ","="," ","-","m",".","f",NL>>,
    <<"c","o","n","s","t"," ","x"," ","=",NL>>,
    <<"x",NL>> }

WalkInputs == {Flatten(ls) : ls \in SeqsUpTo(WalkLines, MaxWalkDecls)}

\* The node types whose Visit returns null, for the Visitors tried: none,
\* those of the printer, and one type at a time.
SkipSets ==
  { {}, {"QualName", "ImportSpec"}, {"File"}, {"ConstSpec"}, {"BinaryExpr"},
    {"UnaryExpr"}, {"Name"} }

Visitors == {[id |-> 0, skip |-> s, fresh |-> f] : s \in SkipSets, f \in BOOLEAN}

InitWalk ==
  /\ text \in WalkInputs
  /\ sc = Nil
  /\ tok = ZeroToken
  /\ prev = ZeroToken
  /\ ps = ZeroParser
  /\ nodes = <<>>
  /\ ret = Nil
  /\ visitor \in Visitors
  /\ events = <<>>
  /\ pc = "Parse"

\* What the Walk call leaves.
WalkReturned(r) ==
  /\ events' = r.events
  /\ pc' = IF r.panicked THEN "Walk panic" ELSE "walked"

\* Walk(visitor, root) for the File returned or a node below it.
Walk_call ==
  /\ pc = "done"
  /\ \E root \in Tree(ret.File) : WalkReturned(Walk(visitor, root))
  /\ UNCHANGED <<text, sc, tok, prev, ps, nodes, ret, visitor>>

NextWalk == Parse_init \/ parse_loop \/ Parse_return \/ Walk_call

SpecWalk == InitWalk /\ [][NextWalk]_vars

\* The calls so far obey the protocol, given the nodes whose Visit returned
\* a Visitor and whose Exit is yet to come (the innermost last, each with
\* that Visitor and the children visited so far): a Visit is made on the
\* Visitor of the innermost such node, an Exit is made for that node on its
\* Visitor after all its children were visited in order, and at the end
\* no Exit is missing.
RECURSIVE Nested(_, _)
Nested(calls, open) ==
  IF calls = <<>> THEN open = <<>>
  ELSE LET e == Head(calls)
           n == Len(open)
       IN IF e.call = "Visit"
          THEN /\ n > 0 => e.on = open[n].w
               /\ Nested(Tail(calls),
                         (IF n > 0 THEN [open EXCEPT ![n].seen = Append(@, e.node)]
                          ELSE open)
                           \o (IF e.w = NoVisitor THEN <<>>
                               ELSE <<[node |-> e.node, w |-> e.w, seen |-> <<>>]>>))
          ELSE /\ n > 0
               /\ open[n].node = e.node
               /\ open[n].w = e.on
               /\ open[n].seen = Children(e.node)
               /\ Nested(Tail(calls), SubSeq(open, 1, n - 1))

\* C16: when Walk is over, for every node whose Visit returned a Visitor w
\* the children were walked with w and Exit(node) was called once, on w,
\* after the calls for everything below it; for a node whose Visit returned
\* null no child was visited and no Exit was called.
C16_VisitExitNested ==
  pc \in {"walked", "Walk panic"} => Nested(events, <<>>)

\* The node and the nodes below it, parents first, children in the order of
\* their fields.
RECURSIVE PreOrder(_), PreOrderEach(_)
PreOrder(n) == <<n>> \o PreOrderEach(Children(n))

PreOrderEach(ns) ==
  IF ns = <<>> THEN <<>> ELSE PreOrder(Head(ns)) \o PreOrderEach(Tail(ns))

\* The nodes Visit was called for, in order.
Visited ==
  LET visits == SelectSeq(events, LAMBDA e : e.call = "Visit")
  IN [i \in 1..Len(visits) |-> visits[i].node]

\* C17: Walk applied to the File that Parse returned completes without
\* failure, and with a Visitor that skips nothing it visits the nodes parents
\* first and children in the fixed order: File nodes in order, QualName name
\* then module, BinaryExpr lhs then rhs.
C17_WalkCompletes ==
  (pc \in {"walked", "Walk panic"} /\ events[1].node = ret.File) =>
    /\ pc = "walked"
    /\ visitor.skip = {} => Visited = PreOrder(ret.File)

---------------------------------------------------------------------------
(* Lines() and Done() of the scanner, stated of SpecScan                   *)

\* src split at every newline: the lines a newline ends, then the rest.
RECURSIVE SplitFrom(_, _)
SplitFrom(src, line) ==
  IF src = <<>> THEN <<line>>
  ELSE IF Head(src) = NL THEN <<line>> \o SplitFrom(Tail(src), <<>>)
  ELSE SplitFrom(Tail(src), Append(line, Head(src)))

Split(src) == SplitFrom(src, <<>>)

\* The lines of src that a newline ends.
CompletedLines(src) == Let(Split(src), LAMBDA ls : SubSeq(ls, 1, Len(ls) - 1))

\* src split at every newline, a final empty segment dropped.
SplitLines(src) ==
  Let(Split(src), LAMBDA ls :
    IF ls[Len(ls)] = <<>> THEN SubSeq(ls, 1, Len(ls) - 1) ELSE ls)

\* The characters of src before the scan position of s.
Consumed(s, src) ==
  IF s.current = endmarker THEN src ELSE SubSeq(src, 1, s.rdoffset - 1)

\* src as the scanner reads it: without a byte order mark at offset 0, and
\* with U+FFFD for every byte that is no UTF-8 encoding.
Decoded(src) ==
  LET runes == [i \in 1..Len(src) |-> IF src[i] = BAD THEN RuneError ELSE src[i]]
  IN IF src # <<>> /\ src[1] = BOM THEN Tail(runes) ELSE runes

IsPrefix(a, b) == Len(a) <= Len(b) /\ SubSeq(b, 1, Len(a)) = a

\* C18 as stated: before the end of input is consumed Lines() holds the
\* completed lines of the source text so far and as many entries as the line
\* number of the scan position; entries in Lines() never change; and once
\* Scan has returned ENDMARKER, Lines() is the source text split at every
\* newline with a final empty segment dropped.
C18_LinesAreSourceLines ==
  /\ [](sc # Nil =>
          /\ ~Done(sc) =>
               /\ Len(Lines(sc)) = sc.end.Line
               /\ Lines(sc) = CompletedLines(Consumed(sc, text))
          /\ tok.Kind = ENDMARKER => Lines(sc) = SplitLines(text))
  /\ [][sc # Nil => IsPrefix(Lines(sc), Lines(sc'))]_vars

\* C18, amended: the same of the source text as the scanner reads it,
\* without a byte order mark at offset 0 and with U+FFFD in the place of
\* every byte that is no UTF-8 encoding.
C18_LinesAreDecodedLines ==
  /\ [](sc # Nil =>
          /\ ~Done(sc) =>
               /\ Len(Lines(sc)) = sc.end.Line
               /\ Lines(sc) = CompletedLines(Decoded(Consumed(sc, text)))
          /\ tok.Kind = ENDMARKER => Lines(sc) = SplitLines(Decoded(text)))
  /\ [][sc # Nil => IsPrefix(Lines(sc), Lines(sc'))]_vars

\* Scan has returned ENDMARKER for a text of a byte order mark, an invalid
\* byte, a newline and a last line that no newline ends.
C18_Witness ==
  /\ tok.Kind = ENDMARKER
  /\ text = <<BOM, BAD, NL, "a">>
  /\ Lines(sc) = << <<RuneError>>, <<"a">> >>

\* C19: Done() is false until Scan has returned ENDMARKER for the first time
\* and true from then on (every Scan after an ENDMARKER returns ENDMARKER, so
\* that is when the last token is ENDMARKER); the loop for !Done() { Scan() }
\* therefore ends with the ENDMARKER token.
C19_DoneIffEndmarkerReturned ==
  Done(sc) <=> tok.Kind = ENDMARKER

\* The offsets after 0 at which src holds a byte order mark.
LaterBoms(src) == {i \in 2..Len(src) : src[i] = BOM}

\* The diagnostics of errs that are about a byte order mark.
BomDiagnostics(errs) ==
  {i \in 1..Len(errs) :
     \/ errs[i].Message = Msg("illegal byte order mark", "", <<>>)
     \/ errs[i].Message = Msg("illegal character %#U", "", <<BOM>>)}

\* C20: when the text is scanned to its end, the byte order marks have
\* produced one diagnostic each, 'illegal byte order mark', but for one at
\* offset 0, which produces no diagnostic and is part of no token.
C20_OneDiagnosticPerByteOrderMark ==
  /\ tok.Kind = ENDMARKER =>
       /\ Cardinality(BomDiagnostics(sc.errs)) = Cardinality(LaterBoms(text))
       /\ \A i \in BomDiagnostics(sc.errs) :
            sc.errs[i].Message = Msg("illegal byte order mark", "", <<>>)
  /\ LaterBoms(text) = {} => \A i \in 1..Len(tok.Value) : tok.Value[i] # BOM

---------------------------------------------------------------------------
(* Number literals, stated of SpecScan                                     *)

Octal8123 == <<"0","o","8","1","2","3">>

\* The state after the first Scan call of the run.
FirstScanned == prev = ZeroToken /\ tok # ZeroToken

\* C21 as stated: scanning 0o8123 yields one INTEGER token with the value
\* 0o8123 and no diagnostic.
C21_OneOctalToken ==
  (text = Octal8123 /\ FirstScanned) =>
    /\ tok = Token(INTEGER, MkPos(0, 0), Octal8123)
    /\ sc.errs = <<>>

NoOctalDigits == ErrorInfo(MkPos(0, 0), Msg("%s literal has no digits", "octal", <<>>))

\* C21, amended: scanning 0o8123 yields the INTEGER token 0o with the one
\* diagnostic 'octal literal has no digits', and then the INTEGER token 8123
\* with no further diagnostic: a digit that is none of the base ends the
\* literal.
C21_OctalPrefixThenDecimal ==
  (text = Octal8123 /\ tok # ZeroToken) =>
    /\ sc.errs = <<NoOctalDigits>>
    /\ <<prev, tok>> \in
         LET t1 == Token(INTEGER, MkPos(0, 0), <<"0","o">>)
             t2 == Token(INTEGER, MkPos(0, 2), <<"8","1","2","3">>)
             t3 == Token(ENDMARKER, MkPos(0, 6), EndmarkerValue)
         IN {<<ZeroToken, t1>>, <<t1, t2>>, <<t2, t3>>, <<t3, t3>>}

\* 0o8123 has been scanned to its end.
C21_Witness ==
  /\ text = Octal8123
  /\ prev = Token(INTEGER, MkPos(0, 2), <<"8","1","2","3">>)
  /\ tok.Kind = ENDMARKER

\* The longest prefix of src made of decimal digits and '_'.
RECURSIVE DigitRun(_)
DigitRun(src) ==
  IF src # <<>> /\ (isDecimal(Head(src)) \/ Head(src) = "_")
  THEN <<Head(src)>> \o DigitRun(Tail(src))
  ELSE <<>>

\* Does the number literal at the start of src go on as a float?
GoesOnAsFloat(src) ==
  /\ Len(src) > Len(DigitRun(src))
  /\ src[Len(DigitRun(src)) + 1] \in {".", "e", "E"}

LeadingZeros ==
  Msg("leading zeros in decimal integer literals are not permitted", "", <<>>)

\* C22: for a text that begins with 0 and another decimal digit, the first
\* Scan returns one INTEGER token with the whole run of digits as its value
\* and reports 'leading zeros in decimal integer literals are not permitted'
\* exactly once, at the token; when the literal goes on as a FLOAT the
\* diagnostic is not reported.
C22_LeadingZeroKeepsToken ==
  (FirstScanned /\ Len(text) >= 2 /\ text[1] = "0" /\ isDecimal(text[2])) =>
    IF GoesOnAsFloat(text)
    THEN /\ tok.Kind = FLOAT
         /\ tok.Pos = MkPos(0, 0)
         /\ \A i \in 1..Len(sc.errs) : sc.errs[i].Message # LeadingZeros
    ELSE /\ tok = Token(INTEGER, MkPos(0, 0), DigitRun(text))
         /\ Cardinality({i \in 1..Len(sc.errs) : sc.errs[i].Message = LeadingZeros}) = 1
         /\ ErrorInfo(MkPos(0, 0), LeadingZeros) \in {sc.errs[i] : i \in 1..Len(sc.errs)}

\* The first Scan of 0123 has returned.
C22_Witness ==
  /\ FirstScanned
  /\ text = <<"0","1","2","3">>
  /\ tok = Token(INTEGER, MkPos(0, 0), text)
  /\ sc.errs = <<ErrorInfo(MkPos(0, 0), LeadingZeros)>>

---------------------------------------------------------------------------
(* Token values and the source text, stated of SpecScan                    *)

\* src without a byte order mark at offset 0, which New skips.
Body(src) == IF src # <<>> /\ src[1] = BOM THEN Tail(src) ELSE src

\* The number of characters of src before the position pos.
Offset(src, pos) ==
  LET newlines == {i \in 1..Len(src) : src[i] = NL}
      before == {i \in newlines :
                   Cardinality({j \in newlines : j <= i}) = pos.Line}
  IN (IF pos.Line = 0 \/ before = {} THEN 0 ELSE CHOOSE i \in before : TRUE)
       + pos.Column

\* The n characters of src from the position pos on; shorter when src ends.
SourceText(src, pos, n) ==
  Let(Offset(src, pos), LAMBDA off :
    SubSeq(src, off + 1, IF off + n > Len(src) THEN Len(src) ELSE off + n))

\* C23: the value of every token Scan returns other than NEWLINE and
\* ENDMARKER is the source text from the token's first to its last character,
\* which is the last character consumed; NEWLINE has the value "newline" and
\* ENDMARKER the value "endmarker".
C23_ValueIsSourceText ==
  tok # ZeroToken =>
    CASE tok.Kind = NEWLINE -> tok.Value = NewlineValue
      [] tok.Kind = ENDMARKER -> tok.Value = EndmarkerValue
      [] OTHER ->
           /\ tok.Value = SourceText(Body(text), tok.Pos, Len(tok.Value))
           /\ Offset(Body(text), tok.Pos) + Len(tok.Value)
                = Len(Consumed(sc, text)) - (Len(text) - Len(Body(text)))

\* The same of the text as the scanner decodes it; a STRING that runs into
\* the end of the input inside an escape sequence has the decoded text and
\* then U+FFFD for every step taken at the end of the input.
C23_ValueIsDecodedText ==
  (tok # ZeroToken /\ tok.Kind \notin {NEWLINE, ENDMARKER}) =>
    Let(SourceText(Decoded(text), tok.Pos, Len(tok.Value)), LAMBDA src :
      \/ /\ tok.Value = src
         /\ Offset(Decoded(text), tok.Pos) + Len(tok.Value)
              = Len(Consumed(sc, text)) - (Len(text) - Len(Body(text)))
      \/ /\ tok.Kind = STRING_
         /\ sc.current = endmarker
         /\ Len(src) < Len(tok.Value)
         /\ SubSeq(tok.Value, 1, Len(src)) = src
         /\ \A i \in (Len(src) + 1)..Len(tok.Value) : tok.Value[i] = RuneError)

---------------------------------------------------------------------------
(* The positions of the diagnostics, stated of SpecScan                    *)

\* The positions of the tokens Scan returns for src, the ENDMARKER included.
TokenPositions(src, last) ==
  Let(Tokens(src), LAMBDA ts : {ts[i].Pos : i \in 1..Len(ts)} \cup {last.Pos})

\* C24: every error passed to the ErrorHandler carries the position of the
\* first character of a token: once the text is scanned, the position of
\* every diagnostic is the position of one of the tokens Scan returned.
C24_ErrorsAtTokenStart ==
  (tok.Kind = ENDMARKER /\ prev.Kind # ENDMARKER) =>
    \A i \in 1..Len(sc.errs) : sc.errs[i].Pos \in TokenPositions(text, tok)

\* The diagnostics whose position is the position of no token come from
\* load, from escape and from the radix point of scanNumber.
C24_OnlyEndPositions ==
  (tok.Kind = ENDMARKER /\ prev.Kind # ENDMARKER) =>
    \A i \in 1..Len(sc.errs) :
      \/ sc.errs[i].Pos \in TokenPositions(text, tok)
      \/ sc.errs[i].Message.fmt \in
           { "illegal character NUL", "illegal UTF-8 encoding",
             "unknown escape sequence",
             "illegal hexadecimal digit %#U in escape sequence",
             "escape sequence is invalid unicode code point",
             "invalid radix point in %s literal" }

---------------------------------------------------------------------------
(* Scanning the values of the tokens again, stated of SpecScan             *)

\* The values of the tokens ts, joined with single spaces.
RECURSIVE Joined(_)
Joined(ts) ==
  IF ts = <<>> THEN <<>>
  ELSE IF Len(ts) = 1 THEN ts[1].Value
  ELSE ts[1].Value \o <<" ">> \o Joined(Tail(ts))

TokenKinds(ts) == [i \in 1..Len(ts) |-> ts[i].Kind]

\* Scan has just returned the first ENDMARKER of the text.
FirstEndmarker == tok.Kind = ENDMARKER /\ prev.Kind # ENDMARKER

\* C25 as stated: for every text whose scan yields no COMMENT and no ILLEGAL
\* token, the values of the tokens before the ENDMARKER, joined with single
\* spaces, scan to the same sequence of token kinds.
C25_JoinedValuesScanAlike ==
  FirstEndmarker =>
    Let(Tokens(text), LAMBDA ts :
      (\A i \in 1..Len(ts) : ts[i].Kind \notin {COMMENT, ILLEGAL}) =>
        TokenKinds(Tokens(Joined(ts))) = TokenKinds(ts))

\* C25, amended: the same for every text whose scan yields no COMMENT, no
\* ILLEGAL and no NEWLINE token.
C25_JoinedValuesOfOneLine ==
  FirstEndmarker =>
    Let(Tokens(text), LAMBDA ts :
      (\A i \in 1..Len(ts) : ts[i].Kind \notin {COMMENT, ILLEGAL, NEWLINE}) =>
        TokenKinds(Tokens(Joined(ts))) = TokenKinds(ts))

\* The text 1.a; is scanned: a FLOAT, an IDENTIFIER and a SEMICOLON.
C25_Witness ==
  /\ FirstEndmarker
  /\ text = <<"1", ".", "a", ";">>
  /\ TokenKinds(Tokens(text)) = <<FLOAT, IDENTIFIER, SEMICOLON>>
  /\ Joined(Tokens(text)) = <<"1", ".", " ", "a", " ", ";">>

---------------------------------------------------------------------------
(* Two invocations of Parse, their steps interleaved.  Here text, ps,      *)
(* nodes, ret and pc hold one entry for each invocation; ps is the heap of *)
(* parsers, and a run-time panic ends the invocation it happens in.        *)

MaxTwoDecls == 2

\* import "a" / const = 1 / type
TwoLines ==
  { <<"i","m","p","o","r","t"," ",DQ,"a",DQ,NL>>,
    <<"c","o","n","s","t"," ","="," ","1",NL>>,
    <<"t","y","p","e",NL>> }

TwoInputs == {Flatten(ls) : ls \in SeqsUpTo(TwoLines, MaxTwoDecls)}

Invocations == {1, 2}

\* Parse with a slip: there is one parser, which every invocation uses.
ParserOf_shared(i) == 1

\* p := &parser{}: every invocation of Parse has a parser of its own.
ParserOf(i) == i

InitTwo ==
  /\ text \in TwoInputs \X TwoInputs
  /\ sc = Nil
  /\ tok = ZeroToken
  /\ prev = ZeroToken
  /\ ps = <<ZeroParser, ZeroParser>>
  /\ nodes = << <<>>, <<>> >>
  /\ ret = <<Nil, Nil>>
  /\ visitor = Nil
  /\ events = <<>>
  /\ pc = <<"Parse", "Parse">>

\* p := &parser{}; p.init(text), in invocation i
Parse_init_of(i) ==
  /\ pc[i] = "Parse"
  /\ ps' = [ps EXCEPT ![ParserOf(i)] = init(text[i])]
  /\ pc' = [pc EXCEPT ![i] = IF ps'[ParserOf(i)].panicked THEN "panic" ELSE "parse"]
  /\ UNCHANGED <<text, sc, tok, prev, nodes, ret, visitor, events>>

\* What a parseDecl call of invocation i leaves.
DeclaredOf(i, r) ==
  /\ ps' = [ps EXCEPT ![ParserOf(i)] = r.p]
  /\ nodes' = [nodes EXCEPT ![i] = IF r.p.panicked THEN @ ELSE Append(@, r.node)]
  /\ pc' = [pc EXCEPT ![i] = IF r.p.panicked THEN "panic" ELSE "parse"]

\* One iteration of the loop of parse, in invocation i
parse_loop_of(i) ==
  /\ pc[i] = "parse"
  /\ ps[ParserOf(i)].current.Kind # ENDMARKER
  /\ DeclaredOf(i, parseDecl(ps[ParserOf(i)]))
  /\ UNCHANGED <<text, sc, tok, prev, ret, visitor, events>>

\* The loop ends; invocation i returns its ParsedFile.
Parse_return_of(i) ==
  /\ pc[i] = "parse"
  /\ ps[ParserOf(i)].current.Kind = ENDMARKER
  /\ ret' = [ret EXCEPT ![i] = ParsedFile(ps[ParserOf(i)], nodes[i])]
  /\ pc' = [pc EXCEPT ![i] = "done"]
  /\ UNCHANGED <<text, sc, tok, prev, ps, nodes, visitor, events>>

NextTwo ==
  \E i \in Invocations : Parse_init_of(i) \/ parse_loop_of(i) \/ Parse_return_of(i)

SpecTwo == InitTwo /\ [][NextTwo]_vars

\* How an invocation has ended: by returning ret, or by a panic after the
\* diagnostics errors.
Outcome(end, r, errors) == [pc |-> end, ret |-> r, errors |-> errors]

\* Parse(src) run alone: the loop of parse from the parser p on.
RECURSIVE ParseFrom(_, _)
ParseFrom(p, ns) ==
  IF p.panicked THEN Outcome("panic", Nil, p.errors)
  ELSE IF p.current.Kind = ENDMARKER
  THEN Outcome("done", ParsedFile(p, ns), p.errors)
  ELSE Let(parseDecl(p), LAMBDA r :
         ParseFrom(r.p, IF r.p.panicked THEN ns ELSE Append(ns, r.node)))

ParseAlone(src) == ParseFrom(init(src), <<>>)

---------------------------------------------------------------------------
(* Error recovery: p.sync(to) called again and again, as parseDecl and     *)
(* parseImportSpec call it, with the parser moving on by p.next() between  *)
(* the calls.  Here ret is the set 'to' of the last call that returned,    *)
(* tok the token current when the last call began, prev the token the last *)
(* call to return returned at, nodes the number of returns in a row that   *)
(* were made without advancing at the token of the return before, and      *)
(* visitor the last operation; events holds syncPos as the last call found *)
(* it and whether that call began with the ten returns at its token spent. *)
(* A return at ENDMARKER ends the run, as it ends the loop of parse.       *)

MaxSyncWords == 3

\* struct / ; / x / a line break / type
SyncWords == { <<"s","t","r","u","c","t">>, <<";">>, <<"x">>, <<NL>>, <<"t","y","p","e">> }

SyncInputs ==
  {Flatten([i \in 1..Len(ws) |-> ws[i] \o <<" ">>]) : ws \in SeqsUpTo(SyncWords, MaxSyncWords)}

InitSync ==
  /\ text \in SyncInputs
  /\ ps = init(text)
  /\ sc = Nil
  /\ tok = ZeroToken
  /\ prev = ZeroToken
  /\ nodes = 0
  /\ ret = {}
  /\ visitor = "init"
  /\ events = <<>>
  /\ pc = "sync"

\* What a call of sync that began at the parser p leaves.
Synced(p, q, to) ==
  /\ ps' = q
  /\ ret' = IF q.panicked THEN ret ELSE to
  /\ events' = [syncPos |-> p.syncPos,
                 spent |-> /\ p.syncCnt = 10
                           /\ p.current.Kind \in to
                           /\ p.current.Pos = p.syncPos]
  /\ tok' = p.current
  /\ prev' = IF q.panicked THEN prev ELSE q.current
  /\ nodes' = IF /\ ~q.panicked
                 /\ q.current = p.current
                 /\ q.current = prev
              THEN nodes + 1 ELSE 0
  /\ pc' = IF q.panicked THEN "panic"
           ELSE IF q.current.Kind = ENDMARKER THEN "done" ELSE "sync"

\* p.sync(semiOnly) or p.sync(declStart)
sync_call ==
  /\ pc = "sync"
  /\ \E to \in {semiOnly, declStart} : Synced(ps, sync(ps, to), to)
  /\ visitor' = "sync"
  /\ UNCHANGED <<text, sc>>

\* p.next() between two calls of sync: a parsing function moves on.
sync_next ==
  /\ pc = "sync"
  /\ ps.current.Kind # ENDMARKER
  /\ ps' = parser_next(ps)
  /\ pc' = IF ps'.panicked THEN "panic" ELSE "sync"
  /\ visitor' = "next"
  /\ UNCHANGED <<text, sc, tok, prev, nodes, ret, events>>

NextSync == sync_call \/ sync_next

SpecSync == InitSync /\ [][NextSync]_vars

\* C27: sync(to) returns only at a token whose kind is in 'to' or at
\* ENDMARKER; it returns without advancing at the token of its previous
\* return at most 10 times in a row, and the call after the tenth advances
\* and returns at a token in 'to' at a strictly greater position or at
\* ENDMARKER; syncCnt stays within 0..10 and syncPos never decreases.
C27_SyncGuard ==
  /\ prev # ZeroToken => (prev.Kind \in ret \/ prev.Kind = ENDMARKER)
  /\ nodes \in 0..10
  /\ ps.syncCnt \in 0..10
  /\ visitor = "sync" =>
       /\ ~Greater(events.syncPos, ps.syncPos)
       /\ events.spent =>
            /\ pc # "panic"
            /\ \/ ps.current.Kind = ENDMARKER
               \/ /\ ps.current.Kind \in ret
                  /\ Greater(ps.current.Pos, tok.Pos)

\* The same of the calls that return: a call in which p.next() panics
\* returns nothing.
C27_SyncGuardOnReturn ==
  /\ prev # ZeroToken => (prev.Kind \in ret \/ prev.Kind = ENDMARKER)
  /\ nodes \in 0..10
  /\ ps.syncCnt \in 0..10
  /\ visitor = "sync" =>
       /\ ~Greater(events.syncPos, ps.syncPos)
       /\ (events.spent /\ pc # "panic") =>
            \/ ps.current.Kind = ENDMARKER
            \/ /\ ps.current.Kind \in ret
               /\ Greater(ps.current.Pos, tok.Pos)

---------------------------------------------------------------------------
(* p.expect(kind) and p.parseExpr(precNone) called at any token, as the    *)
(* parsing functions call them.  Here sc is the parser as the last call    *)
(* found it, visitor the function called, nodes the kind given to expect,  *)
(* tok the token expect returned and ret the node parseExpr returned.  A   *)
(* call made at ENDMARKER ends the run.                                    *)

MaxCallWords == 3

\* ; / x / + / type / a line break / an illegal character
CallWords == { <<";">>, <<"x">>, <<"+">>, <<"t","y","p","e">>, <<NL>>, <<"&">> }

CallInputs ==
  {Flatten([i \in 1..Len(ws) |-> ws[i] \o <<" ">>]) : ws \in SeqsUpTo(CallWords, MaxCallWords)}

InitCalls ==
  /\ text \in CallInputs
  /\ ps = init(text)
  /\ sc = Nil
  /\ tok = ZeroToken
  /\ prev = ZeroToken
  /\ nodes = 0
  /\ ret = Nil
  /\ visitor = "init"
  /\ events = <<>>
  /\ pc = "call"

\* What a call that began at the parser p and ended with the parser q leaves.
Called(p, q) ==
  /\ sc' = p
  /\ ps' = q
  /\ pc' = IF q.panicked THEN "panic"
           ELSE IF p.current.Kind = ENDMARKER THEN "done" ELSE "call"

\* p.expect(scanner.SEMICOLON) or p.expect(scanner.IDENTIFIER)
expect_call ==
  /\ pc = "call"
  /\ \E kind \in {SEMICOLON, IDENTIFIER} :
       /\ Called(ps, expect(ps, kind).p)
       /\ tok' = expect(ps, kind).token
       /\ nodes' = kind
  /\ visitor' = "expect"
  /\ UNCHANGED <<text, prev, ret, events>>

\* p.parseExpr(precNone)
parseExpr_at ==
  /\ pc = "call"
  /\ Called(ps, parseExpr(ps, precNone).p)
  /\ ret' = parseExpr(ps, precNone).node
  /\ visitor' = "parseExpr"
  /\ UNCHANGED <<text, tok, prev, nodes, events>>

NextCalls == expect_call \/ parseExpr_at

SpecCalls == InitCalls /\ [][NextCalls]_vars

\* The diagnostic "expected <what>, found '<value>'" at the token.
ExpectedFound(what, token) ==
  ErrorInfo(token.Pos, Msg("expected %s, found '%s'", what, token.Value))

\* What the last call appended to p.errors.
Appended == SubSeq(ps.errors, Len(sc.errors) + 1, Len(ps.errors))

\* The diagnostics among errs that a parsing function reported, the
\* scanner's diagnostics for the token read set aside.
OfParser(errs) ==
  SelectSeq(errs, LAMBDA e : e.Message.fmt = "expected %s, found '%s'")

\* The parser has moved from p to the next token that next() delivers.
AdvancedOne(p, q) ==
  /\ q.current = parser_next(p).current
  /\ q.scanner = parser_next(p).scanner

\* C28: expect(kind) returns the token that was current and advances the
\* parser by exactly one delivered token in every case; on a mismatch it
\* appends the one diagnostic "expected '<kind>', found '<value>'" at that
\* token's position, and on a match it appends none.
C28_ExpectAdvancesOne ==
  visitor = "expect" =>
    /\ pc # "panic"
    /\ tok = sc.current
    /\ AdvancedOne(sc, ps)
    /\ OfParser(Appended) =
         IF tok.Kind # nodes
         THEN <<ExpectedFound("'" \o String(nodes) \o "'", tok)>> ELSE <<>>

\* The same of the calls that return.
C28_ExpectOnReturn ==
  (visitor = "expect" /\ pc # "panic") =>
    /\ tok = sc.current
    /\ AdvancedOne(sc, ps)
    /\ OfParser(Appended) =
         IF tok.Kind # nodes
         THEN <<ExpectedFound("'" \o String(nodes) \o "'", tok)>> ELSE <<>>
    /\ tok.Kind # nodes => Head(Appended) = Head(OfParser(Appended))

\* C29: when the current token has no prefix rule, parseExpr appends the one
\* diagnostic "expected expression, found '<value>'" at that token's
\* position, consumes exactly one token and returns BadNode(From = that
\* token's position, To = the position of the new current token), applying
\* no infix rule.
C29_NoPrefixRule ==
  (visitor = "parseExpr" /\ exprRuleTable(sc.current.Kind).nud = "nil") =>
    /\ pc # "panic"
    /\ OfParser(Appended) = <<ExpectedFound("expression", sc.current)>>
    /\ AdvancedOne(sc, ps)
    /\ ret = BadNode(sc.current.Pos, ps.current.Pos)

\* The same of the calls that return.
C29_NoPrefixRuleOnReturn ==
  (/\ visitor = "parseExpr"
   /\ exprRuleTable(sc.current.Kind).nud = "nil"
   /\ pc # "panic") =>
    /\ OfParser(Appended) = <<ExpectedFound("expression", sc.current)>>
    /\ Head(Appended) = ExpectedFound("expression", sc.current)
    /\ AdvancedOne(sc, ps)
    /\ ret = BadNode(sc.current.Pos, ps.current.Pos)

---------------------------------------------------------------------------
(* The comma list of the parser kept in pkg/ast/walk.go: parseItems, and   *)
(* parseType, which is the item of its one caller.                         *)

Type(name, args) == [type |-> "Type", Name |-> name, Args |-> args]

RECURSIVE parseType(_), parseItems(_, _), parseItemsLoop(_, _, _)

\* for p.accept(scanner.COMMA) { ... }; returns the parser and the items.
parseItemsLoop(p, items, stop) ==
  Let(accept(p, COMMA), LAMBDA a :
    IF a.p.panicked \/ ~a.ok \/ a.p.current.Kind = stop
    THEN [p |-> a.p, items |-> items]
    ELSE Let(parseType(a.p), LAMBDA r :
           parseItemsLoop(r.p, Append(items, r.node), stop)))

\* Returns the parser and the items; the item function is parseType.
parseItems(p, stop) ==
  Let(accept(p, stop), LAMBDA a :
    IF a.ok THEN [p |-> a.p, items |-> <<>>]
    ELSE Let(parseType(p), LAMBDA first :
         Let(parseItemsLoop(first.p, <<first.node>>, stop), LAMBDA l :
           [p |-> expect(l.p, stop).p, items |-> l.items])))

parseType(p) ==
  IF p.panicked THEN PR(p, Nil)
  ELSE Let(parseQualName(p), LAMBDA name :
       Let(accept(name.p, LEFT_BRACK), LAMBDA a :
         IF a.ok
         THEN Let(parseItems(a.p, RIGHT_BRACK), LAMBDA r :
                PR(r.p, Type(name.node, r.items)))
         ELSE PR(a.p, Type(name.node, <<>>))))

MaxItemWords == 4

\* a / b / , / ] / [ / type / ;
ItemWords ==
  { <<"a">>, <<"b">>, <<",">>, <<"]">>, <<"[">>, <<"t","y","p","e">>, <<";">> }

\* What can follow a '[': up to MaxItemWords words.
ItemInputs ==
  {Flatten([i \in 1..Len(ws) |-> ws[i] \o <<" ">>]) : ws \in SeqsUpTo(ItemWords, MaxItemWords)}

\* The parser stands behind a '['; sc is the parser as the call finds it.
InitItems ==
  /\ text \in ItemInputs
  /\ ps = init(text)
  /\ sc = init(text)
  /\ tok = ZeroToken
  /\ prev = ZeroToken
  /\ nodes = 0
  /\ ret = <<>>
  /\ visitor = "init"
  /\ events = <<>>
  /\ pc = "Items"

\* What the parseItems call leaves.
Listed(r) ==
  /\ ps' = r.p
  /\ ret' = r.items
  /\ pc' = IF r.p.panicked THEN "panic" ELSE "done"

\* args = p.parseItems(parseItem, scanner.RIGHT_BRACK)
parseItems_call ==
  /\ pc = "Items"
  /\ Listed(parseItems(ps, RIGHT_BRACK))
  /\ visitor' = "parseItems"
  /\ UNCHANGED <<text, sc, tok, prev, nodes, events>>

NextItems == parseItems_call

SpecItems == InitItems /\ [][NextItems]_vars

\* The tokens next() delivers from the parser p on, up to ENDMARKER or to
\* the token at which next() panics.
RECURSIVE Delivered(_)
Delivered(p) ==
  IF p.current.Kind = ENDMARKER THEN <<p.current>>
  ELSE Let(parser_next(p), LAMBDA q :
         IF q.panicked THEN <<p.current>> ELSE <<p.current>> \o Delivered(q))

\* The list item (',' item)* with an optional trailing comma that begins at
\* ds[i], for items that are plain names: the names, and the index at which
\* the stop token is due.
RECURSIVE RefItems(_, _, _, _)
RefItems(ds, i, names, stop) ==
  IF i + 1 > Len(ds) \/ ds[i].Kind # IDENTIFIER \/ ds[i + 1].Kind \in {DOT, LEFT_BRACK}
  THEN [plain |-> FALSE, names |-> names, at |-> i]
  ELSE IF ds[i + 1].Kind = COMMA /\ i + 2 <= Len(ds)
  THEN IF ds[i + 2].Kind = stop
       THEN [plain |-> TRUE, names |-> Append(names, ds[i]), at |-> i + 2]
       ELSE RefItems(ds, i + 2, Append(names, ds[i]), stop)
  ELSE [plain |-> ds[i + 1].Kind # COMMA, names |-> Append(names, ds[i]), at |-> i + 1]

\* The token after ds[i]; ENDMARKER stays.
After(ds, i) == ds[IF i < Len(ds) THEN i + 1 ELSE i]

\* The items are the names, in their order.
NamesAre(items, names) ==
  /\ Len(items) = Len(names)
  /\ \A j \in 1..Len(items) :
       /\ items[j].Name.Name = Name(names[j].Pos, names[j].Value)
       /\ items[j].Args = <<>>

\* C30: parseItems returns the empty list when the first token is stop;
\* otherwise it parses item (',' item)* with an optional trailing comma
\* before stop and returns the items in source order; in both cases the stop
\* token is consumed, and when stop is missing the one diagnostic
\* "expected '<stop>'" is recorded and the parser advances one token.
C30_CommaList ==
  visitor = "parseItems" =>
    Let(Delivered(sc), LAMBDA ds :
      IF ds[1].Kind = RIGHT_BRACK
      THEN /\ pc = "done"
           /\ ret = <<>>
           /\ ps.current = After(ds, 1)
           /\ OfParser(Appended) = <<>>
      ELSE Let(RefItems(ds, 1, <<>>, RIGHT_BRACK), LAMBDA ref :
             ref.plain =>
               /\ pc = "done"
               /\ NamesAre(ret, ref.names)
               /\ ps.current = After(ds, ref.at)
               /\ OfParser(Appended) =
                    IF ds[ref.at].Kind = RIGHT_BRACK THEN <<>>
                    ELSE <<ExpectedFound("']'", ds[ref.at])>>))

\* The same of the calls that return.
C30_CommaListOnReturn ==
  (visitor = "parseItems" /\ pc = "done") =>
    Let(Delivered(sc), LAMBDA ds :
      IF ds[1].Kind = RIGHT_BRACK
      THEN /\ ret = <<>>
           /\ ps.current = After(ds, 1)
           /\ Appended = <<>>
      ELSE Let(RefItems(ds, 1, <<>>, RIGHT_BRACK), LAMBDA ref :
             ref.plain =>
               /\ NamesAre(ret, ref.names)
               /\ ps.current = After(ds, ref.at)
               /\ OfParser(Appended) =
                    IF ds[ref.at].Kind = RIGHT_BRACK THEN <<>>
                    ELSE <<ExpectedFound("']'", ds[ref.at])>>))

---------------------------------------------------------------------------
(* The end of a number literal, stated of SpecScan                         *)

\* The base a number literal's prefix announces, and the length of the prefix.
PrefixLen(src) ==
  IF Len(src) >= 2 /\ src[1] = "0" /\ src[2] \in {"b", "B", "o", "O", "x", "X"}
  THEN 2 ELSE 0

BaseOf(src) ==
  IF PrefixLen(src) = 0 THEN decimal
  ELSE IF src[2] \in {"b", "B"} THEN binary
  ELSE IF src[2] \in {"o", "O"} THEN octal
  ELSE hexadecimal

\* The characters of a literal that are no digits.
LiteralMarks == {"_", ".", "e", "E", "+", "-"}

\* The token and the diagnostics of scanning a text of one's own.
ScannedAlone(src) ==
  Let(Scan(New(src, TRUE)), LAMBDA r : [token |-> r.token, errs |-> r.s.errs])

\* A number literal starts the text: a decimal digit, or a '.' before one.
StartsWithNumber(src) ==
  /\ Len(src) > 0
  /\ \/ isDecimal(src[1])
     \/ src[1] = "." /\ Len(src) > 1 /\ isDecimal(src[2])

\* The i-th character stands in the fraction: after the '.', before the
\* exponent marker.
InFraction(src, i) ==
  \E j \in 1..(i - 1) :
    src[j] = "." /\ \A k \in (j + 1)..(i - 1) : src[k] \notin {"e", "E"}

\* The base the digits of the fraction are read in.
FractionBase(src, i) == IF InFraction(src, i) THEN decimal ELSE BaseOf(src)

\* The first token is a number literal that ends before the first character
\* that is neither a digit of the base DigitBase gives nor a mark: the
\* token's value is the text before that character, the character is not
\* consumed (it is the scanner's current character, at the column after the
\* literal) and brings no diagnostic: the token and the diagnostics are
\* those of the literal scanned with nothing after it.
EndsLiteral(DigitBase(_, _)) ==
  (FirstScanned /\ StartsWithNumber(text)) =>
    Let(Len(tok.Value), LAMBDA n :
      /\ tok.Kind \in {INTEGER, FLOAT}
      /\ n > 0
      /\ tok.Value = SubSeq(text, 1, n)
      /\ \A i \in (PrefixLen(text) + 1)..n :
           digitValue(text[i]) < DigitBase(text, i) \/ text[i] \in LiteralMarks
      /\ n < Len(text) =>
           /\ sc.current = text[n + 1]
           /\ sc.end = MkPos(0, n)
           /\ ScannedAlone(SubSeq(text, 1, n)) = [token |-> tok, errs |-> sc.errs])

\* C31: in a number literal a character that is no digit of the literal's
\* base, and none of '_', '.', the exponent marker and its sign, ends the
\* literal without being consumed and without a diagnostic, and starts the
\* next token.
C31_OutOfBaseEndsLiteral == EndsLiteral(LAMBDA src, i : BaseOf(src))

\* C31 (amended): the same, with the digits of the fraction read in base 10
\* whatever the literal's base: 0b.8 is one token.
C31_OutOfPartBaseEndsLiteral == EndsLiteral(FractionBase)

\* The literals of the scanner's tests: 0b01a0 scans as 0b01 then a0, 0o12a3
\* as 0o12 then a3, 1f as 1 then f and 0x1g as 0x1 then g, with no diagnostic.
NoDigitOfBase ==
  { <<"0","b","0","1","a","0">>, <<"0","o","1","2","a","3">>, <<"1","f">>,
    <<"0","x","1","g">> }

\* C31 (the literals named): each scans as an INTEGER that ends before the
\* letter and an IDENTIFIER that starts with it, and nothing is reported.
C31_NamedLiterals ==
  (FirstScanned /\ text \in NoDigitOfBase) =>
    Let(Len(tok.Value), LAMBDA n :
      /\ tok = Token(INTEGER, MkPos(0, 0), SubSeq(text, 1, n))
      /\ n < Len(text)
      /\ ~isDecimal(text[n + 1])
      /\ Scan(sc).token = Token(IDENTIFIER, MkPos(0, n), SubSeq(text, n + 1, Len(text)))
      /\ Scan(sc).s.errs = <<>>)

C31_EndOfLiteral == C31_OutOfPartBaseEndsLiteral /\ C31_NamedLiterals

C31_Witness ==
  /\ text \in NoDigitOfBase
  /\ prev.Kind = INTEGER
  /\ prev.Pos = MkPos(0, 0)
  /\ tok.Kind = IDENTIFIER
  /\ prev.Value \o tok.Value = text
  /\ tok.Pos = MkPos(0, Len(prev.Value))
  /\ sc.errs = <<>>

---------------------------------------------------------------------------
(* The digit separator, stated of SpecScan                                 *)

\* The i-th character of a literal is a digit of the part it stands in.
IsDigit(v, i) ==
  /\ i \in 1..Len(v)
  /\ i > PrefixLen(v)
  /\ digitValue(v[i]) < FractionBase(v, i)

\* The i-th character of a literal is its exponent marker.
IsExponentMarker(v, i) ==
  /\ i \in (PrefixLen(v) + 1)..Len(v)
  /\ v[i] \in {"e", "E"}
  /\ ~IsDigit(v, i)

IsMark(v, i) == i \in 1..Len(v) /\ (v[i] = "." \/ IsExponentMarker(v, i))

\* An underscore that does not separate: it stands before another one, at
\* the end of a digit run, or next to the '.' or the exponent marker.
BadSeparator(v, i) ==
  /\ v[i] = "_"
  /\ \/ i < Len(v) /\ v[i + 1] = "_"
     \/ i = Len(v)
     \/ IsMark(v, i + 1)
     \/ IsMark(v, i - 1)

\* An underscore between two digits, and one directly after the base prefix.
BetweenDigits(v, i) == IsDigit(v, i - 1) /\ IsDigit(v, i + 1)

AfterPrefix(v, i) == PrefixLen(v) > 0 /\ i = PrefixLen(v) + 1

Underscores(v) == {i \in 1..Len(v) : v[i] = "_"}

\* The digit runs of a literal: the one before the first mark, and the one
\* after the exponent marker.
MantissaRun(v) ==
  {i \in (PrefixLen(v) + 1)..Len(v) : \A j \in 1..i : ~IsMark(v, j)}

ExponentRun(v) ==
  {i \in 1..Len(v) : \E j \in 1..(i - 1) : IsExponentMarker(v, j)}

SeparatorMsg == Msg("'_' must separate successive digits", "", <<>>)

ReportsOf(fmt) == {i \in 1..Len(sc.errs) : sc.errs[i].Message.fmt = fmt}

\* What the first token, a number literal, reports of its underscores.
\* AllowedAfterPrefix(v, i) says which underscore after the base prefix is
\* one that separates.
SeparatorReports(AllowedAfterPrefix(_, _)) ==
  (FirstScanned /\ StartsWithNumber(text)) =>
    Let(tok.Value, LAMBDA v :
      /\ (\E i \in Underscores(v) : BadSeparator(v, i)) =>
           Cardinality(ReportsOf(SeparatorMsg.fmt)) = 1
      /\ (\A i \in Underscores(v) :
            BetweenDigits(v, i) \/ AllowedAfterPrefix(v, i)) =>
           ReportsOf(SeparatorMsg.fmt) = {}
      /\ (\E i \in MantissaRun(v) : BadSeparator(v, i)) =>
           ReportsOf("%s literal has no digits") = {}
      /\ (\E i \in ExponentRun(v) : BadSeparator(v, i)) =>
           ReportsOf("exponent has no digits") = {})

\* C32: a number literal reports "'_' must separate successive digits"
\* exactly once if it has two adjacent underscores, an underscore at the end
\* of a digit run or one next to '.' or the exponent marker, and does not
\* report it when every underscore stands between two digits or directly
\* after the base prefix; when a digit run has it reported, '<base> literal
\* has no digits' and 'exponent has no digits' are not reported for that run.
C32_SeparatorReports == SeparatorReports(AfterPrefix)

\* C32 (amended): the same, with the underscore directly after the base
\* prefix one that separates only if a digit follows it: 0x_ is reported.
C32_SeparatorBeforeDigit ==
  SeparatorReports(LAMBDA v, i : AfterPrefix(v, i) /\ IsDigit(v, i + 1))

\* The first Scan of 1__1 has reported the separator once, that of 0b_1
\* nothing, and that of 1e_ the separator and no exponent without digits.
C32_Witness ==
  /\ FirstScanned
  /\ \/ text = <<"1","_","_","1">> /\ sc.errs = <<ErrorInfo(MkPos(0, 0), SeparatorMsg)>>
     \/ text = <<"0","b","_","1">> /\ sc.errs = <<>>
     \/ text = <<"1","e","_">> /\ sc.errs = <<ErrorInfo(MkPos(0, 0), SeparatorMsg)>>
  /\ tok.Value = text

---------------------------------------------------------------------------
(* The end of a string literal, stated of SpecScan                         *)

SingleEscapes == {"a", "b", "f", "n", "r", "t", "v", BSL, DQ}

\* Where the string that starts the text ends: the index of its closing
\* quote (one that is no part of a single-character escape) or of the first
\* newline, or the length of the text plus one at the end of input.
RECURSIVE StringEnd(_, _)
StringEnd(src, i) ==
  IF i > Len(src) THEN i
  ELSE IF src[i] \in {DQ, NL} THEN i
  ELSE IF src[i] = BSL /\ i < Len(src) /\ src[i + 1] \in SingleEscapes
  THEN StringEnd(src, i + 2)
  ELSE StringEnd(src, i + 1)

Unterminated == ErrorInfo(MkPos(0, 0), Msg("unterminated string", "", <<>>))

UnterminatedReports ==
  {i \in 1..Len(sc.errs) : sc.errs[i].Message = Unterminated.Message}

\* The first token is the string that starts the text, ended where
\* StringEnd says: at the closing quote, consumed and with no report of
\* 'unterminated string', or at a newline or the end of input, with one
\* report of it at the start of the string, the newline not consumed (it is
\* the next token) and no newline in the value.
EndsString ==
  Let(StringEnd(text, 2), LAMBDA e :
    /\ tok.Kind = STRING_
    /\ tok.Pos = MkPos(0, 0)
    /\ IF e <= Len(text) /\ text[e] = DQ
       THEN /\ sc.end = MkPos(0, e)
            /\ tok.Value = SubSeq(text, 1, e)
            /\ UnterminatedReports = {}
       ELSE /\ Cardinality(UnterminatedReports) = 1
            /\ \E i \in 1..Len(sc.errs) : sc.errs[i] = Unterminated
            /\ \A i \in 1..Len(tok.Value) : tok.Value[i] # NL
            /\ IF e <= Len(text)
               THEN /\ sc.current = NL
                    /\ sc.end = MkPos(0, e - 1)
                    /\ Scan(sc).token = Token(NEWLINE, MkPos(0, e - 1), NewlineValue)
               ELSE sc.current = endmarker)

EscapeTakesAny(src) ==
  \E i \in 1..(Len(src) - 1) : src[i] = BSL /\ src[i + 1] \in {NL, "x", "u", "U"}

\* C33 (the strings with no backslash before a newline, x, u or U): the
\* string ends as the claim says.
C33_StringEndsOtherwise ==
  (FirstScanned /\ Len(text) > 0 /\ text[1] = DQ /\ ~EscapeTakesAny(text)) =>
    EndsString

---------------------------------------------------------------------------
(* The current token under next, expect and accept: SpecTokens             *)

MaxTokenWords == 3

\* How many calls are made with ENDMARKER current.
MaxAtEnd == 2

\* ; / x / type / a line break / an illegal character / a comment
TokenWords ==
  { <<";">>, <<"x">>, <<"t","y","p","e">>, <<NL>>, <<"&">>, <<"/","/","c">> }

TokenInputs ==
  {Flatten([i \in 1..Len(ws) |-> ws[i] \o <<" ">>]) : ws \in SeqsUpTo(TokenWords, MaxTokenWords)}

InitTokens ==
  /\ text \in TokenInputs
  /\ ps = init(text)
  /\ sc = Nil
  /\ tok = ZeroToken
  /\ prev = ZeroToken
  /\ nodes = <<>>
  /\ ret = Nil
  /\ visitor = "init"
  /\ events = 0
  /\ pc = "call"

\* What a call that found the parser p and left the parser q leaves: sc is
\* the parser as the call found it, events the calls made at ENDMARKER.
Moved(p, q) ==
  /\ sc' = p
  /\ ps' = q
  /\ events' = IF p.current.Kind = ENDMARKER THEN events + 1 ELSE events
  /\ pc' = IF q.panicked THEN "panic"
           ELSE IF events' = MaxAtEnd THEN "done" ELSE "call"

\* p.next()
next_at ==
  /\ pc = "call"
  /\ Moved(ps, parser_next(ps))
  /\ visitor' = "next"
  /\ UNCHANGED <<text, tok, prev, nodes, ret>>

\* p.expect(kind): tok is the token returned.
expect_at ==
  /\ pc = "call"
  /\ \E kind \in {SEMICOLON} :
       /\ Moved(ps, expect(ps, kind).p)
       /\ tok' = expect(ps, kind).token
  /\ visitor' = "expect"
  /\ UNCHANGED <<text, prev, nodes, ret>>

\* p.accept(kind): ret is what it returned.
accept_at ==
  /\ pc = "call"
  /\ \E kind \in {SEMICOLON, ENDMARKER} :
       /\ Moved(ps, accept(ps, kind).p)
       /\ ret' = accept(ps, kind).ok
  /\ visitor' = "accept"
  /\ UNCHANGED <<text, tok, prev, nodes>>

NextTokens == next_at \/ expect_at \/ accept_at

SpecTokens == InitTokens /\ [][NextTokens]_vars

\* C34: from init on the current token is never NEWLINE, COMMENT or ILLEGAL,
\* and a next(), expect() or accept() that finds ENDMARKER current returns
\* with ENDMARKER current.
C34_CurrentToken ==
  /\ ps.current.Kind \notin {NEWLINE, COMMENT, ILLEGAL}
  /\ (visitor # "init" /\ sc.current.Kind = ENDMARKER) =>
       /\ pc # "panic"
       /\ ps.current.Kind = ENDMARKER

\* The second call at ENDMARKER has returned, for a text with a comment, an
\* illegal character or a line break.
C34_Witness ==
  /\ pc = "done"
  /\ events = MaxAtEnd
  /\ sc.current.Kind = ENDMARKER
  /\ ps.current.Kind = ENDMARKER
  /\ \E i \in 1..Len(text) : text[i] \in {NL, "&", "/"}

---------------------------------------------------------------------------
(* The loop of parse, call by call: SpecLoop                               *)

MaxLoopWords == 3

\* import "a"\n / const k=1\n / type / struct / func / x / ; / a line break
LoopWords ==
  { <<"i","m","p","o","r","t"," ",DQ,"a",DQ,NL>>,
    <<"c","o","n","s","t"," ","k","=","1",NL>>,
    <<"t","y","p","e"," ">>,
    <<"s","t","r","u","c","t"," ">>,
    <<"f","u","n","c"," ">>,
    <<"x"," ">>,
    <<";">>,
    <<NL>> }

LoopInputs == {Flatten(ws) : ws \in SeqsUpTo(LoopWords, MaxLoopWords)}

\* Parse up to the loop of parse.  events counts the calls of parseDecl made
\* in a row that returned without consuming a token.
InitLoop ==
  /\ text \in LoopInputs
  /\ ps = init(text)
  /\ sc = Nil
  /\ tok = ZeroToken
  /\ prev = ZeroToken
  /\ nodes = <<>>
  /\ ret = Nil
  /\ visitor = Nil
  /\ events = 0
  /\ pc = "parse"

\* The call consumed no token: the current token and the scanner are those
\* the call found.
InPlace(p, q) == q.current = p.current /\ q.scanner = p.scanner

\* nodes = append(nodes, p.parseDecl()): sc is the parser as the call found it.
parseDecl_call ==
  /\ pc = "parse"
  /\ ps.current.Kind # ENDMARKER
  /\ Declared(parseDecl(ps))
  /\ sc' = ps
  /\ events' = IF ps'.panicked THEN events
               ELSE IF InPlace(ps, ps') THEN events + 1 ELSE 0
  /\ UNCHANGED <<text, tok, prev, ret, visitor>>

\* The loop ends; parse returns the File.
parse_return ==
  /\ pc = "parse"
  /\ ps.current.Kind = ENDMARKER
  /\ ret' = File(nodes)
  /\ pc' = "done"
  /\ UNCHANGED <<text, sc, tok, prev, ps, nodes, visitor, events>>

NextLoop == parseDecl_call \/ parse_return

SpecLoop == InitLoop /\ [][NextLoop]_vars

\* The BadNode entries among ns that start at pos, and the diagnostics
\* "expected declaration, ..." among errs at pos.
BadNodesAt(ns, pos) ==
  {i \in 1..Len(ns) : ns[i].type = "BadNode" /\ ns[i].From = pos}

ExpectedDeclarationAt(errs, pos) ==
  {i \in 1..Len(errs) :
     /\ errs[i].Pos = pos
     /\ errs[i].Message.fmt = "expected %s, found '%s'"
     /\ errs[i].Message.a = "declaration"}

\* C35: in the loop of parse at most 11 calls of parseDecl in a row return
\* without consuming a token, and no more than 12 BadNode entries of the
\* nodes, and no more than 12 diagnostics "expected declaration", start at
\* one source position, whatever the input.
C35_FewCallsInPlace ==
  /\ events <= 11
  /\ \A i \in 1..Len(nodes) :
       nodes[i].type = "BadNode" =>
         Cardinality(BadNodesAt(nodes, nodes[i].From)) <= 12
  /\ \A i \in 1..Len(ps.errors) :
       Cardinality(ExpectedDeclarationAt(ps.errors, ps.errors[i].Pos)) <= 12

\* Eleven calls in a row have returned in place at a struct token that
\* follows an import, and parse has returned twelve BadNode entries there.
C35_Witness ==
  /\ pc = "done"
  /\ ret.Nodes = nodes
  /\ Len(nodes) = 13
  /\ nodes[1].type = "ImportSpec"
  /\ Cardinality(BadNodesAt(nodes, MkPos(1, 0))) = 12
  /\ Cardinality(ExpectedDeclarationAt(ps.errors, MkPos(1, 0))) = 12
  /\ ps.syncCnt = 10

---------------------------------------------------------------------------
(* Imports and Symtab of the ParsedFile, stated of Spec                    *)

\* The nodes of the given type among ns, in their order.
NodesOfType(ns, type) == SelectSeq(ns, LAMBDA n : n.type = type)

\* The symbol table entries of the ConstSpec nodes cs.
SymbolsOf(cs) == [i \in 1..Len(cs) |-> Symbol(ConstSym, cs[i].Name, cs[i])]

\* C36: in the ParsedFile that Parse returns, Imports is the sequence of the
\* ImportSpec nodes of File.Nodes in their order, those with a malformed path
\* included, and Symtab has one entry {ConstSym, Name, Decl} for each
\* ConstSpec of File.Nodes, in their order, Decl the ConstSpec and Name its
\* name node.
C36_ImportsAndSymtab ==
  pc = "done" =>
    /\ ret.Imports = NodesOfType(ret.File.Nodes, "ImportSpec")
    /\ ret.Symtab = SymbolsOf(NodesOfType(ret.File.Nodes, "ConstSpec"))

\* Parse has returned a file with a constant and an import whose path is no
\* string.
C36_Witness ==
  /\ pc = "done"
  /\ Len(ret.Symtab) = 1
  /\ ret.Symtab[1].Decl = ret.File.Nodes[1]
  /\ Len(ret.Imports) = 1
  /\ ret.Imports[1] = ret.File.Nodes[2]
  /\ ret.Imports[1].Path.Value = <<>>
  /\ \E i \in 1..Len(ret.Errors) :
       ret.Errors[i].Message.fmt = "import path must be a string"

=============================================================================
